---------------------------- MODULE Spec2Model ----------------------------
(***************************************************************************)
(* A model of the forecasting core of ManushP12/forecaster:               *)
(*   NewPipelineTrajectoryAnalyzer  (services/new-trajectory-analyzer.ts) *)
(*   BacktestAnalyzer               (services/backtest-analyzer.ts)       *)
(*                                                                         *)
(* Numbers.  A JavaScript number is modelled by an exact fraction          *)
(* [n |-> numerator, d |-> denominator] in lowest terms with d > 0.  The   *)
(* three non-finite values are kept: d = 0 with n = 0 is NaN, with n = 1   *)
(* is +Infinity and with n = -1 is -Infinity.  Rounding of the binary      *)
(* floating point format and the sign of zero are not modelled.            *)
(*                                                                         *)
(* Instants.  A Date is [day |-> days since 1970-01-01, ms |-> millisecond *)
(* of that UTC day]; ms = -1 is the Invalid Date.                          *)
(*                                                                         *)
(* Text.  A string is a sequence of symbols.  Digits, punctuation and the  *)
(* blank are one-character symbols; a stage name is one symbol.            *)
(***************************************************************************)
EXTENDS Integers, Sequences, FiniteSets, TLC

VARIABLES
    rawData,                \* the rows handed to processRawData by the current call
    mapped,                 \* result of rawData.map(...) before .filter (row or Null)
    allData,
    aggregatedDataByMonth,
    allHistoricalMonths,
    currentMonths,
    actualClosingValues,
    forecastGrowthRates,
    medianGrowthRates,
    peakData,
    today,                  \* the instant `new Date()` returns
    loads,                  \* number of loadData calls made on this analyzer
    lastCall,               \* the last public method called
    outcome,                \* "returned" or "threw" for lastCall
    result,                 \* what lastCall returned
    bt                      \* the BacktestAnalyzer runs under comparison

vars == << rawData, mapped, allData, aggregatedDataByMonth, allHistoricalMonths,
           currentMonths, actualClosingValues, forecastGrowthRates,
           medianGrowthRates, peakData, today, loads, lastCall, outcome,
           result, bt >>

-----------------------------------------------------------------------------
(* Generic helpers                                                         *)

Null == [isNull |-> TRUE]

Abs(x) == IF x < 0 THEN -x ELSE x

Sign(x) == IF x < 0 THEN -1 ELSE IF x > 0 THEN 1 ELSE 0

Min2(a, b) == IF a < b THEN a ELSE b

Max2(a, b) == IF a > b THEN a ELSE b

RECURSIVE Gcd(_, _)
Gcd(a, b) == IF b = 0 THEN a ELSE Gcd(b, a % b)

Range(s) == { s[i] : i \in 1..Len(s) }

\* F(v), with v evaluated once: the body of F reads a value, as the
\* statements after `const x = v` do
Let(v, F(_)) == CHOOSE r \in { F(x) : x \in { v } } : TRUE

-----------------------------------------------------------------------------
(* Numbers                                                                 *)

NaN == [n |-> 0, d |-> 0]

PosInf == [n |-> 1, d |-> 0]

Rat(n, d) ==
    IF d = 0 THEN [n |-> Sign(n), d |-> 0]
    ELSE LET g == Gcd(Abs(n), Abs(d))
             s == IF d < 0 THEN -1 ELSE 1
         IN  [n |-> s * (n \div g), d |-> s * (d \div g)]

Num(k) == [n |-> k, d |-> 1]

IsNaN(x) == x.d = 0 /\ x.n = 0

IsFinite(x) == x.d # 0

RNeg(a) == [n |-> -a.n, d |-> a.d]

RAdd(a, b) ==
    IF IsNaN(a) \/ IsNaN(b) THEN NaN
    ELSE IF a.d = 0 /\ b.d = 0 THEN (IF a.n = b.n THEN a ELSE NaN)
    ELSE IF a.d = 0 THEN a
    ELSE IF b.d = 0 THEN b
    ELSE IF a.d = b.d THEN Rat(a.n + b.n, a.d)
    ELSE Rat(a.n * b.d + b.n * a.d, a.d * b.d)

RSub(a, b) == RAdd(a, RNeg(b))

RMul(a, b) ==
    IF IsNaN(a) \/ IsNaN(b) THEN NaN
    ELSE IF a.d = 0 \/ b.d = 0
         THEN [n |-> Sign(a.n) * Sign(b.n), d |-> 0]
    ELSE LET g1 == Gcd(Abs(a.n), b.d)
             g2 == Gcd(Abs(b.n), a.d)
         IN  [n |-> (a.n \div g1) * (b.n \div g2), d |-> (a.d \div g2) * (b.d \div g1)]

RDiv(a, b) ==
    IF IsNaN(a) \/ IsNaN(b) THEN NaN
    ELSE IF b.d = 0 THEN (IF a.d = 0 THEN NaN ELSE Num(0))
    ELSE IF b.n = 0 THEN [n |-> Sign(a.n), d |-> 0]
    ELSE RMul(a, Rat(b.d, b.n))

\* -1, 0, 1 for -Infinity, a finite number, +Infinity
Rank(x) == IF x.d = 0 THEN x.n ELSE 0

\* a < b; false when either side is NaN
RLt(a, b) ==
    /\ ~IsNaN(a) /\ ~IsNaN(b)
    /\ \/ Rank(a) < Rank(b)
       \/ a.d # 0 /\ b.d # 0 /\ a.n * b.d < b.n * a.d

RGt(a, b) == RLt(b, a)

RLe(a, b) == ~IsNaN(a) /\ ~IsNaN(b) /\ ~RLt(b, a)

RGe(a, b) == RLe(b, a)

RAbs(a) == [n |-> Abs(a.n), d |-> a.d]

\* x^k for an integer k >= 0
RECURSIVE RPow(_, _)
RPow(x, k) == IF k = 0 THEN Num(1) ELSE RMul(x, RPow(x, k - 1))

\* floor of the k-th root of a natural number, for k in 2..3, by bisection
\* between lo and hi with lo^k <= n < hi^k
RECURSIVE IRootBetween(_, _, _, _)
IRootBetween(n, k, lo, hi) ==
    IF hi - lo <= 1 THEN lo
    ELSE IF RPow(Num((lo + hi) \div 2), k).n <= n
         THEN IRootBetween(n, k, (lo + hi) \div 2, hi)
         ELSE IRootBetween(n, k, lo, (lo + hi) \div 2)

IRoot(n, k) == IRootBetween(n, k, 0, Min2(n, IF k = 2 THEN 46340 ELSE 1290) + 1)

\* x is the k-th power of a fraction
IsPower(x, k) ==
    /\ IsFinite(x)
    /\ x.n >= 0
    /\ RPow(Num(IRoot(x.n, k)), k).n = x.n
    /\ RPow(Num(IRoot(x.d, k)), k).n = x.d

\* Math.pow(x, 1 / k) for k in 1..3.  The root is exact when x is the k-th
\* power of a fraction; otherwise it is rounded down to a multiple of
\* 1 / RootDen, as the floating point result is rounded to its own grid.
RootDen == 100

PowInv(x, k) ==
    IF IsNaN(x) THEN NaN
    ELSE IF k = 1 THEN x
    ELSE IF x.d = 0 THEN (IF x.n > 0 THEN PosInf ELSE NaN)
    ELSE IF x.n < 0 THEN NaN
    ELSE IF IsPower(x, k) THEN Rat(IRoot(x.n, k), IRoot(x.d, k))
    ELSE Rat(IRoot((x.n * RPow(Num(RootDen), k).n) \div x.d, k), RootDen)

-----------------------------------------------------------------------------
(* Dates: the Date built-ins the code calls                                *)

MsPerDay == 86400000

InvalidDate == [day |-> 0, ms |-> -1]

IsInvalidDate(t) == t.ms < 0

\* days since 1970-01-01 of the civil date y-m-d (m in 1..12)
DaysFromCivil(y, m, d) ==
    Let(IF m <= 2 THEN y - 1 ELSE y, LAMBDA yy :
    Let(yy \div 400, LAMBDA era :
    Let(yy - era * 400, LAMBDA yoe :
    Let((153 * (IF m > 2 THEN m - 3 ELSE m + 9) + 2) \div 5 + d - 1, LAMBDA doy :
        era * 146097 + (yoe * 365 + yoe \div 4 - yoe \div 100 + doy) - 719468))))

\* the civil date [y, m, d] of a day number
CivilFromDays(z0) ==
    Let(z0 + 719468, LAMBDA z :
    Let(z \div 146097, LAMBDA era :
    Let(z - era * 146097, LAMBDA doe :
    Let((doe - doe \div 1460 + doe \div 36524 - doe \div 146096) \div 365, LAMBDA yoe :
    Let(doe - (365 * yoe + yoe \div 4 - yoe \div 100), LAMBDA doy :
    Let((5 * doy + 2) \div 153, LAMBDA mp :
    Let(IF mp < 10 THEN mp + 3 ELSE mp - 9, LAMBDA m :
        [y |-> yoe + era * 400 + (IF m <= 2 THEN 1 ELSE 0),
         m |-> m,
         d |-> doy - (153 * mp + 2) \div 5 + 1])))))))

\* new Date(Date.UTC(year, monthIndex, day)) followed by ms of the day.
\* The arguments are numbers; a NaN argument gives the Invalid Date, a year
\* in 0..99 means 1900 + year, and month and day overflow into the next
\* (or previous) year and month.
DateUTC(year, monthIndex, dayOfMonth, msOfDay) ==
    IF ~IsFinite(year) \/ ~IsFinite(monthIndex) \/ ~IsFinite(dayOfMonth)
    THEN InvalidDate
    ELSE Let((IF year.n >= 0 /\ year.n <= 99 THEN 1900 + year.n ELSE year.n) * 12
                 + monthIndex.n,
             LAMBDA ym :
                 [day |-> DaysFromCivil(ym \div 12, (ym % 12) + 1, 1) + dayOfMonth.n - 1,
                  ms |-> msOfDay])

getUTCFullYear(t) == CivilFromDays(t.day).y

\* month index 0..11
getUTCMonth(t) == CivilFromDays(t.day).m - 1

\* a.getTime() < b.getTime()
DateLt(a, b) == a.day < b.day \/ (a.day = b.day /\ a.ms < b.ms)

\* new Date(t.getTime() + 1000 * 60 * 60 * 24)
PlusOneDay(t) == [day |-> t.day + 1, ms |-> t.ms]

\* Math.ceil((a.getTime() - b.getTime()) / (1000 * 60 * 60 * 24)), computed
\* on the (day, ms) pair: the difference is q days and r ms with
\* 0 <= r < MsPerDay, and the ceiling is q when r = 0 and q + 1 otherwise.
CeilDays(a, b) ==
    Let(a.ms - b.ms, LAMBDA dms :
    Let((a.day - b.day) + (IF dms < 0 THEN -1 ELSE 0), LAMBDA q :
    Let(IF dms < 0 THEN dms + MsPerDay ELSE dms, LAMBDA r :
        IF r = 0 THEN q ELSE q + 1)))

\* date.toISOString().substring(0, 7): "YYYY-MM" is kept as the number
\* YYYY * 100 + MM, which orders as the text does for four-digit years
MonthKeyOf(t) == Let(CivilFromDays(t.day), LAMBDA c : c.y * 100 + c.m)

\* parseInt(monthKey.substring(0, 4)) and parseInt(monthKey.substring(5, 7))
KeyYear(monthKey) == monthKey \div 100

KeyMonth(monthKey) == monthKey % 100

\* new Date(monthKey + '-01T00:00:00.000Z') and new Date(monthKey)
MonthStart(monthKey) == DateUTC(Num(KeyYear(monthKey)), Num(KeyMonth(monthKey) - 1), Num(1), 0)

\* new Date(Date.UTC(y, monthIndex + 1, 0, 23, 59, 59, 999)) for the month of t
LastInstantOfMonth(y, monthIndex) == DateUTC(Num(y), Num(monthIndex + 1), Num(0), MsPerDay - 1)

-----------------------------------------------------------------------------
(* Text: the String built-ins the code calls                               *)

Digits == << "0", "1", "2", "3", "4", "5", "6", "7", "8", "9" >>

IsDigit(c) == \E i \in 1..10 : Digits[i] = c

DigitVal(c) == (CHOOSE i \in 1..10 : Digits[i] = c) - 1

\* String.prototype.trim
RECURSIVE TrimLeft(_)
TrimLeft(s) == IF s # << >> /\ Head(s) = " " THEN TrimLeft(Tail(s)) ELSE s

RECURSIVE TrimRight(_)
TrimRight(s) ==
    IF s # << >> /\ s[Len(s)] = " " THEN TrimRight(SubSeq(s, 1, Len(s) - 1)) ELSE s

Trim(s) == TrimRight(TrimLeft(s))

\* String.prototype.includes for a one-character argument
Includes(s, c) == \E i \in 1..Len(s) : s[i] = c

\* String.prototype.split for a one-character separator
RECURSIVE Split(_, _)
Split(s, sep) ==
    IF ~Includes(s, sep) THEN << s >>
    ELSE Let(CHOOSE j \in 1..Len(s) : s[j] = sep /\ \A k \in 1..(j - 1) : s[k] # sep,
             LAMBDA i : << SubSeq(s, 1, i - 1) >> \o Split(SubSeq(s, i + 1, Len(s)), sep))

\* number of leading digits of s
RECURSIVE DigitRun(_)
DigitRun(s) == IF s # << >> /\ IsDigit(Head(s)) THEN 1 + DigitRun(Tail(s)) ELSE 0

\* value of the digit string s
RECURSIVE DigitsValue(_)
DigitsValue(s) ==
    IF s = << >> THEN 0 ELSE 10 * DigitsValue(SubSeq(s, 1, Len(s) - 1)) + DigitVal(s[Len(s)])

\* parseInt(s): leading blanks, an optional sign, then the longest run of
\* decimal digits; NaN when there is no digit
ParseInt(s) ==
    Let(TrimLeft(s), LAMBDA t :
    Let(IF t # << >> /\ Head(t) \in {"-", "+"} THEN Tail(t) ELSE t, LAMBDA u :
    Let(DigitRun(u), LAMBDA k :
        IF k = 0 THEN NaN
        ELSE Num((IF t # << >> /\ Head(t) = "-" THEN -1 ELSE 1)
                 * DigitsValue(SubSeq(u, 1, k))))))

\* parseFloat(s): leading blanks, an optional sign, digits, an optional
\* fraction; NaN when there is no digit.  (Exponents and the literal
\* Infinity are outside the modelled input texts.)
ParseFloat(s) ==
    Let(TrimLeft(s), LAMBDA t :
    Let(IF t # << >> /\ Head(t) \in {"-", "+"} THEN Tail(t) ELSE t, LAMBDA u :
    Let(DigitRun(u), LAMBDA k :
    Let(SubSeq(u, k + 1, Len(u)), LAMBDA rest :
    Let(IF rest # << >> /\ Head(rest) = "." THEN DigitRun(Tail(rest)) ELSE 0, LAMBDA f :
    Let(RPow(Num(10), f).n, LAMBDA scale :
        IF k = 0 /\ f = 0 THEN NaN
        ELSE Rat((IF t # << >> /\ Head(t) = "-" THEN -1 ELSE 1)
                 * (DigitsValue(SubSeq(u, 1, k)) * scale
                    + DigitsValue(SubSeq(rest, 2, f + 1))),
                 scale)))))))

\* s.replace(/[,\$]/g, '')
StripCommaDollar(s) == SelectSeq(s, LAMBDA c : c \notin {",", "$"})

\* value of the w digits of s starting at position i, or -1
FieldAt(s, i, w) ==
    IF i + w - 1 <= Len(s) /\ \A j \in i..(i + w - 1) : IsDigit(s[j])
    THEN DigitsValue(SubSeq(s, i, i + w - 1)) ELSE -1

SymAt(s, i, c) == i <= Len(s) /\ s[i] = c

DaysInMonth(y, m) == DaysFromCivil(IF m = 12 THEN y + 1 ELSE y, IF m = 12 THEN 1 ELSE m + 1, 1)
                     - DaysFromCivil(y, m, 1)

\* new Date(text) for the ECMAScript date-time string format:
\*   YYYY-MM-DDTHH:mm:ss.sssZ, YYYY-MM-DD and YYYY-MM (all UTC).
\* Any other text gives the Invalid Date (other formats are left to the
\* implementation by the language and are not among the modelled texts).
DateParse(s) ==
    IF ~ /\ Len(s) \in {7, 10, 24}
         /\ SymAt(s, 5, "-")
         /\ Len(s) > 7 => SymAt(s, 8, "-")
         /\ Len(s) = 24 => /\ SymAt(s, 11, "T") /\ SymAt(s, 14, ":") /\ SymAt(s, 17, ":")
                           /\ SymAt(s, 20, ".") /\ SymAt(s, 24, "Z")
    THEN InvalidDate
    ELSE
    Let(FieldAt(s, 1, 4), LAMBDA y :
    Let(FieldAt(s, 6, 2), LAMBDA mo :
    Let(IF Len(s) = 7 THEN 1 ELSE FieldAt(s, 9, 2), LAMBDA dd :
    Let(IF Len(s) = 24 THEN FieldAt(s, 12, 2) ELSE 0, LAMBDA hh :
    Let(IF Len(s) = 24 THEN FieldAt(s, 15, 2) ELSE 0, LAMBDA mi :
    Let(IF Len(s) = 24 THEN FieldAt(s, 18, 2) ELSE 0, LAMBDA ss :
    Let(IF Len(s) = 24 THEN FieldAt(s, 21, 3) ELSE 0, LAMBDA ml :
        IF /\ y >= 0 /\ mo \in 1..12 /\ dd >= 1 /\ hh \in 0..23
           /\ mi \in 0..59 /\ ss \in 0..59 /\ ml >= 0
           /\ dd <= DaysInMonth(y, mo)
        THEN [day |-> DaysFromCivil(y, mo, dd),
              ms  |-> ((hh * 60 + mi) * 60 + ss) * 1000 + ml]
        ELSE InvalidDate)))))))

\* the decimal digits of n, padded with zeros to width w
RECURSIVE Pad(_, _)
Pad(n, w) == IF w = 0 THEN << >> ELSE Pad(n \div 10, w - 1) \o << Digits[(n % 10) + 1] >>

\* Date.prototype.toISOString
ToISOString(t) ==
    Let(CivilFromDays(t.day), LAMBDA c :
        Pad(c.y, 4) \o << "-" >> \o Pad(c.m, 2) \o << "-" >> \o Pad(c.d, 2) \o << "T" >>
        \o Pad(t.ms \div 3600000, 2) \o << ":" >> \o Pad((t.ms \div 60000) % 60, 2)
        \o << ":" >> \o Pad((t.ms \div 1000) % 60, 2) \o << "." >> \o Pad(t.ms % 1000, 3)
        \o << "Z" >>)

-----------------------------------------------------------------------------
(* RecordParser: processRawData                                            *)

\* names every object inherits from Object.prototype
ObjectPrototypeNames ==
    { "constructor", "toString", "valueOf", "hasOwnProperty", "isPrototypeOf",
      "propertyIsEnumerable", "toLocaleString", "__proto__" }

\* STAGE_WEIGHTS[stage] ?? 0, as the number the multiplication uses.
\* STAGE_WEIGHTS is an object literal, so a lookup of a name inherited from
\* Object.prototype finds a function (or the prototype object), which is
\* neither null nor undefined and converts to NaN as a factor.
StageWeight(stage) ==
    IF Len(stage) # 1 THEN Num(0)
    ELSE CASE stage[1] = "FUNDED" -> Num(1)
           [] stage[1] = "READY_FOR_FUNDING" -> Rat(95, 100)
           [] stage[1] = "CONDITION_FULFILLMENT" -> Rat(75, 100)
           [] stage[1] = "APPROVED" -> Rat(60, 100)
           [] stage[1] \in ObjectPrototypeNames -> NaN
           [] OTHER -> Num(0)

\* a range check that also drops the row seen exactly 89 days before the close
OutOfRangeFrom89(daysBeforeClose) == daysBeforeClose >= 89 \/ daysBeforeClose < -5

\* a range check that keeps the row seen 90 days before the close
OutOfRangeBeyond90(daysBeforeClose) == daysBeforeClose > 90 \/ daysBeforeClose < -5

\* daysBeforeClose > 89 || daysBeforeClose < -5
OutOfRange(daysBeforeClose) == daysBeforeClose > 89 \/ daysBeforeClose < -5

\* the closure passed to rawData.map: a ProcessedRow or Null
ClosingMonthDate(dateStr) ==
    Let(IF Includes(dateStr, "/") THEN Split(dateStr, "/") ELSE Split(dateStr, "-"),
        LAMBDA dateParts :
        IF Len(dateParts) = 3
        THEN DateUTC(ParseInt(dateParts[3]), RSub(ParseInt(dateParts[1]), Num(1)),
                     ParseInt(dateParts[2]), 0)
        ELSE DateParse(dateStr))
ProcessRow(row) ==
    IF row.snapShotTime = << >> \/ row.date = << >> \/ row.totalAmount = << >>
       \/ row.stage = << >>
    THEN Null
    ELSE
    Let(DateParse(Trim(row.snapShotTime)), LAMBDA snapshotDate :
    IF IsInvalidDate(snapshotDate) THEN Null
    ELSE
    Let(ClosingMonthDate(Trim(row.date)), LAMBDA closingMonthDate :
    IF IsInvalidDate(closingMonthDate) THEN Null
    ELSE
    Let(getUTCFullYear(closingMonthDate), LAMBDA closingYear :
    IF closingYear # 2025 THEN Null
    ELSE
    Let(LastInstantOfMonth(closingYear, getUTCMonth(closingMonthDate)),
        LAMBDA lastDayOfMonth :
    Let(CeilDays(lastDayOfMonth, snapshotDate), LAMBDA daysBeforeClose :
    IF OutOfRange(daysBeforeClose) THEN Null
    ELSE
    Let(ParseFloat(StripCommaDollar(row.totalAmount)), LAMBDA amount :
    IF IsNaN(amount) THEN Null
    ELSE
    Let(Trim(row.stage), LAMBDA stage :
        [ snapshotDate    |-> snapshotDate,
          closingMonth    |-> closingMonthDate,
          daysBeforeClose |-> daysBeforeClose,
          amount          |-> amount,
          stage           |-> stage,
          weightedAmount  |-> RMul(amount, StageWeight(stage)) ])))))))

\* rawData.map(row => ...)
MapRows(rows) == [i \in 1..Len(rows) |-> ProcessRow(rows[i])]

\* a parser that stops at the first row that fails
RECURSIVE RowsBeforeFailure(_)
RowsBeforeFailure(rows) ==
    IF rows = << >> \/ ProcessRow(Head(rows)) = Null THEN << >>
    ELSE << ProcessRow(Head(rows)) >> \o RowsBeforeFailure(Tail(rows))

\* processRawData: this.allData = rawData.map(...).filter(row => row !== null)
processRawData(rows) == SelectSeq(MapRows(rows), LAMBDA r : r # Null)

-----------------------------------------------------------------------------
(* MonthAggregator: aggregateDataByMonth                                   *)

\* index of the first entry of s that Same(.) accepts, or 0
FirstIndex(s, Same(_)) ==
    IF \E i \in 1..Len(s) : Same(s[i])
    THEN CHOOSE i \in 1..Len(s) : Same(s[i]) /\ \A j \in 1..(i - 1) : ~Same(s[j])
    ELSE 0

\* dataBySnapshotAndMonth: one entry per `${snapshotKey}|${monthKey}`, in
\* the order the keys are first seen, summing amount and weightedAmount
RECURSIVE SumBySnapshotAndMonth(_, _, _)
AddToSnapshotAndMonth(acc, row) ==
    Let(MonthKeyOf(row.closingMonth), LAMBDA monthKey :
    Let(FirstIndex(acc, LAMBDA e : e.snapshotDate = row.snapshotDate
                                   /\ e.monthKey = monthKey),
        LAMBDA k :
    Let(IF k = 0
        THEN [snapshotDate |-> row.snapshotDate, monthKey |-> monthKey,
              raw |-> Num(0), weighted |-> Num(0)]
        ELSE acc[k],
        LAMBDA old :
    Let([old EXCEPT !.raw = RAdd(old.raw, row.amount),
                    !.weighted = RAdd(old.weighted, row.weightedAmount)],
        LAMBDA new :
        IF k = 0 THEN Append(acc, new) ELSE [acc EXCEPT ![k] = new]))))
SumBySnapshotAndMonth(rows, i, acc) ==
    IF i > Len(rows) THEN acc
    ELSE Let(AddToSnapshotAndMonth(acc, rows[i]),
             LAMBDA next : SumBySnapshotAndMonth(rows, i + 1, next))

\* a daily aggregate that keeps the first instant of the day
KeepFirstOfDay(acc, e) ==
    IF FirstIndex(acc, LAMBDA a : a.snapshotDate.day = e.snapshotDate.day
                                  /\ a.monthKey = e.monthKey) = 0
    THEN Append(acc, [raw |-> e.raw, weighted |-> e.weighted,
                      snapshotDate |-> e.snapshotDate, monthKey |-> e.monthKey,
                      closingMonth |-> MonthStart(e.monthKey)])
    ELSE acc

\* dailyAggregates: one entry per `${snapshotDayKey}|${monthKey}`, replaced
\* when a later instant of the same day arrives
RECURSIVE LatestPerDay(_, _, _)
KeepLatestOfDay(acc, e) ==
    Let(FirstIndex(acc, LAMBDA a : a.snapshotDate.day = e.snapshotDate.day
                                   /\ a.monthKey = e.monthKey),
        LAMBDA k :
    Let([raw |-> e.raw, weighted |-> e.weighted,
         snapshotDate |-> e.snapshotDate, monthKey |-> e.monthKey,
         closingMonth |-> MonthStart(e.monthKey)],
        LAMBDA new :
        IF k = 0 THEN Append(acc, new)
        ELSE IF DateLt(acc[k].snapshotDate, e.snapshotDate)
             THEN [acc EXCEPT ![k] = new]
             ELSE acc))
LatestPerDay(entries, i, acc) ==
    IF i > Len(entries) THEN acc
    ELSE Let(KeepLatestOfDay(acc, entries[i]),
             LAMBDA next : LatestPerDay(entries, i + 1, next))

\* the AggregatedSnapshot pushed for one daily aggregate
SnapshotOf(aggregate) ==
    Let(LastInstantOfMonth(getUTCFullYear(aggregate.closingMonth),
                           getUTCMonth(aggregate.closingMonth)),
        LAMBDA lastDayOfMonth :
            [snapshotDate    |-> aggregate.snapshotDate,
             daysBeforeClose |-> CeilDays(lastDayOfMonth, aggregate.snapshotDate),
             rawPipeline     |-> aggregate.raw,
             weightedPipeline |-> aggregate.weighted])

\* this.aggregatedDataByMonth[monthKey].push(...) for every daily aggregate
RECURSIVE PushAll(_, _, _)
Push(byMonth, aggregate) ==
    Let(MonthKeyOf(aggregate.closingMonth), LAMBDA monthKey :
    Let(IF monthKey \in DOMAIN byMonth THEN byMonth[monthKey] ELSE << >>, LAMBDA old :
        (monthKey :> Append(old, SnapshotOf(aggregate))) @@ byMonth))
PushAll(aggregates, i, byMonth) ==
    IF i > Len(aggregates) THEN byMonth
    ELSE Let(Push(byMonth, aggregates[i]),
             LAMBDA next : PushAll(aggregates, i + 1, next))

\* monthData.sort((a, b) => b.daysBeforeClose - a.daysBeforeClose), stable
RECURSIVE SortByDaysDesc(_)
SortByDaysDesc(s) ==
    IF Len(s) <= 1 THEN s
    ELSE Let(s[Len(s)], LAMBDA x :
         Let(SortByDaysDesc(SubSeq(s, 1, Len(s) - 1)), LAMBDA done :
         Let(Cardinality({ j \in 1..Len(done) :
                             done[j].daysBeforeClose >= x.daysBeforeClose }),
             LAMBDA k : SubSeq(done, 1, k) \o << x >> \o SubSeq(done, k + 1, Len(done)))))

\* aggregateDataByMonth: the new value of this.aggregatedDataByMonth, given
\* its value before the call (the method adds to the field, it never clears it)
aggregateDataByMonth(before, rows) ==
    Let(SumBySnapshotAndMonth(rows, 1, << >>), LAMBDA dataBySnapshotAndMonth :
    Let(LatestPerDay(dataBySnapshotAndMonth, 1, << >>), LAMBDA dailyAggregates :
    Let(PushAll(dailyAggregates, 1, before), LAMBDA pushed :
        [month \in DOMAIN pushed |-> SortByDaysDesc(pushed[month])])))

-----------------------------------------------------------------------------
(* calculateActualClosingValues and MonthClassifier                        *)

\* a reduce that keeps the last of the points equally near the close
RECURSIVE LastClosestToClose(_, _, _)
LastClosestToClose(monthData, i, closest) ==
    IF i > Len(monthData) THEN closest
    ELSE Let(IF Abs(monthData[i].daysBeforeClose) <= Abs(closest.daysBeforeClose)
             THEN monthData[i] ELSE closest,
             LAMBDA next : LastClosestToClose(monthData, i + 1, next))

\* monthData.reduce((closest, point) => |point| < |closest| ? point : closest)
RECURSIVE ClosestToClose(_, _, _)
ClosestToClose(monthData, i, closest) ==
    IF i > Len(monthData) THEN closest
    ELSE Let(IF Abs(monthData[i].daysBeforeClose) < Abs(closest.daysBeforeClose)
             THEN monthData[i] ELSE closest,
             LAMBDA next : ClosestToClose(monthData, i + 1, next))

\* calculateActualClosingValues: the new value of this.actualClosingValues,
\* given its value before the call (entries are set, never removed)
calculateActualClosingValues(before, byMonth) ==
    Let([monthKey \in { k \in DOMAIN byMonth : Len(byMonth[k]) > 0 } |->
            ClosestToClose(byMonth[monthKey], 2, byMonth[monthKey][1])],
        LAMBDA closingValuePoint :
    Let({ monthKey \in DOMAIN closingValuePoint :
            Abs(closingValuePoint[monthKey].daysBeforeClose) <= 5 },
        LAMBDA found :
        [monthKey \in (DOMAIN before) \cup found |->
            IF monthKey \in found
            THEN [raw |-> closingValuePoint[monthKey].rawPipeline,
                  weighted |-> closingValuePoint[monthKey].weightedPipeline]
            ELSE before[monthKey]]))

\* Object.keys(...).sort(): the month keys in ascending order
RECURSIVE SortedKeys(_)
SortedKeys(S) ==
    IF S = {} THEN << >>
    ELSE Let(CHOOSE x \in S : \A y \in S : x <= y,
             LAMBDA m : << m >> \o SortedKeys(S \ {m}))

\* a filter that takes every closed month with a closing value
IsHistoricalAtAnyValue(monthKey, closingValues, now) ==
    /\ DateLt(DateUTC(Num(KeyYear(monthKey)), Num(KeyMonth(monthKey)), Num(0), 0), now)
    /\ monthKey \in DOMAIN closingValues

\* the filter of categorizeMonths (both classes share it)
IsHistorical(monthKey, closingValues, now) ==
    /\ DateLt(DateUTC(Num(KeyYear(monthKey)), Num(KeyMonth(monthKey)), Num(0), 0), now)
    /\ monthKey \in DOMAIN closingValues
    /\ RGt(closingValues[monthKey].weighted, Num(0))

\* categorizeMonths of NewPipelineTrajectoryAnalyzer:
\* [allHistoricalMonths, currentMonths]
categorizeMonths(byMonth, closingValues, now) ==
    Let(SortedKeys(DOMAIN byMonth), LAMBDA allMonths :
    Let(SelectSeq(allMonths, LAMBDA k : IsHistorical(k, closingValues, now)), LAMBDA hist :
        [allHistoricalMonths |-> hist,
         currentMonths |-> SelectSeq(allMonths, LAMBDA k : k \notin Range(hist))]))

-----------------------------------------------------------------------------
(* GrowthRateModel: calculateGrowthRates of NewPipelineTrajectoryAnalyzer  *)

\* the days 0..89 of a curve
LastCurveDay == 89

\* an acceptance that takes a growth of exactly one half
PairRatesUpToHalf(previous, current) ==
    Let(previous.daysBeforeClose - current.daysBeforeClose, LAMBDA daysDiff :
    IF daysDiff > 0 /\ daysDiff <= 3 /\ RGt(previous.weightedPipeline, Num(0))
    THEN Let(RSub(PowInv(RDiv(current.weightedPipeline, previous.weightedPipeline),
                         daysDiff), Num(1)),
             LAMBDA growth :
             IF RGt(growth, Rat(-1, 2)) /\ RLe(growth, Rat(1, 2))
             THEN Let(SelectSeq([d \in 1..daysDiff |-> current.daysBeforeClose + d - 1],
                                LAMBDA day : day >= 0 /\ day <= LastCurveDay),
                      LAMBDA days :
                          [j \in 1..Len(days) |-> [day |-> days[j], growth |-> growth]])
             ELSE << >>)
    ELSE << >>)

\* an acceptance of every growth
PairRatesUnbounded(previous, current) ==
    Let(previous.daysBeforeClose - current.daysBeforeClose, LAMBDA daysDiff :
    IF daysDiff > 0 /\ daysDiff <= 3 /\ RGt(previous.weightedPipeline, Num(0))
    THEN Let(RSub(PowInv(RDiv(current.weightedPipeline, previous.weightedPipeline),
                         daysDiff), Num(1)),
             LAMBDA growth :
             Let(SelectSeq([d \in 1..daysDiff |-> current.daysBeforeClose + d - 1],
                           LAMBDA day : day >= 0 /\ day <= 89),
                 LAMBDA days :
                     [j \in 1..Len(days) |-> [day |-> days[j], growth |-> growth]]))
    ELSE << >>)

\* the growth values one consecutive pair (previous, current) pushes:
\* a sequence of [day, growth]
PairRates(previous, current) ==
    Let(previous.daysBeforeClose - current.daysBeforeClose, LAMBDA daysDiff :
    IF daysDiff > 0 /\ daysDiff <= 3 /\ RGt(previous.weightedPipeline, Num(0))
    THEN Let(RSub(PowInv(RDiv(current.weightedPipeline, previous.weightedPipeline),
                         daysDiff), Num(1)),
             LAMBDA growth :
             IF RGt(growth, Rat(-1, 2)) /\ RLt(growth, Rat(1, 2))
             THEN Let(SelectSeq([d \in 1..daysDiff |-> current.daysBeforeClose + d - 1],
                                LAMBDA day : day >= 0 /\ day <= LastCurveDay),
                      LAMBDA days :
                          [j \in 1..Len(days) |-> [day |-> days[j], growth |-> growth]])
             ELSE << >>)
    ELSE << >>)

\* the pushes of one month, pair by pair
RECURSIVE MonthRates(_, _)
MonthRates(monthData, i) ==
    IF i >= Len(monthData) THEN << >>
    ELSE PairRates(monthData[i], monthData[i + 1]) \o MonthRates(monthData, i + 1)

\* the pushes of months.forEach(...), month by month
RECURSIVE AllRates(_, _, _)
AllRates(byMonth, months, i) ==
    IF i > Len(months) THEN << >>
    ELSE (IF months[i] \in DOMAIN byMonth THEN MonthRates(byMonth[months[i]], 1) ELSE << >>)
         \o AllRates(byMonth, months, i + 1)

\* the rates in the order of their arrival
Unsorted(s) == s

\* [...rates].sort((a, b) => a - b)
RECURSIVE SortRates(_)
SortRates(s) ==
    IF Len(s) <= 1 THEN s
    ELSE Let(s[Len(s)], LAMBDA x :
         Let(SortRates(SubSeq(s, 1, Len(s) - 1)), LAMBDA done :
         Let(Cardinality({ j \in 1..Len(done) : RLe(done[j], x) }),
             LAMBDA k : SubSeq(done, 1, k) \o << x >> \o SubSeq(done, k + 1, Len(done)))))

\* a median that takes the upper of the two middle values
MedianUpper(rates) ==
    Let(SortRates(rates), LAMBDA sortedRates : sortedRates[Len(sortedRates) \div 2 + 1])

\* the median of a non-empty list of rates
Median(rates) ==
    Let(SortRates(rates), LAMBDA sortedRates :
    Let(Len(sortedRates) \div 2, LAMBDA mid :
        IF Len(sortedRates) % 2 # 0 THEN sortedRates[mid + 1]
        ELSE RDiv(RAdd(sortedRates[mid], sortedRates[mid + 1]), Num(2))))

\* medianRates: one entry per day 0..89 (entry day + 1 of the sequence)
MedianRates(pushes) ==
    [i \in 1..(LastCurveDay + 1) |->
        Let(SelectSeq(pushes, LAMBDA p : p.day = i - 1), LAMBDA dayRates :
            [daysBefore |-> i - 1,
             rate |-> IF Len(dayRates) > 0
                      THEN Median([j \in 1..Len(dayRates) |-> dayRates[j].growth])
                      ELSE Num(0)])]

RECURSIVE SumRates(_, _, _)
SumRates(rates, from, to) ==
    IF from > to THEN Num(0) ELSE RAdd(rates[from].rate, SumRates(rates, from + 1, to))

\* a smoothing that divides by the full width of the window at the ends too
SmoothRatesOverFive(medianRates) ==
    [i1 \in 1..Len(medianRates) |->
        [daysBefore |-> medianRates[i1].daysBefore,
         rate |-> RDiv(SumRates(medianRates, Max2(0, i1 - 1 - 2) + 1,
                                Min2(Len(medianRates) - 1, i1 - 1 + 2) + 1),
                       Num(5))]]

\* smoothedRates: the mean over the window of radius 2, clipped at the ends
\* (i, start and end are the code's 0-based indices)
SmoothRates(medianRates) ==
    [i1 \in 1..Len(medianRates) |->
        Let(Max2(0, i1 - 1 - 2), LAMBDA start :
        Let(Min2(Len(medianRates) - 1, i1 - 1 + 2), LAMBDA end :
            [daysBefore |-> medianRates[i1].daysBefore,
             rate |-> RDiv(SumRates(medianRates, start + 1, end + 1),
                           Num(end - start + 1))]))]

\* calculateGrowthRates(months): the returned smoothed curve and the median
\* curve (which NewPipelineTrajectoryAnalyzer also stores in a field)
calculateGrowthRates(byMonth, months) ==
    Let(MedianRates(AllRates(byMonth, months, 1)), LAMBDA medianRates :
        [median |-> medianRates, smoothed |-> SmoothRates(medianRates)])

\* a lookup that takes the rate of the day before
RateOfDayBefore(rates, d) == IF d + 2 <= Len(rates) THEN rates[d + 2].rate ELSE Num(0)

\* rates.find(r => r.daysBefore === d)?.rate ?? 0
RateAt(rates, d) ==
    IF \E i \in 1..Len(rates) : rates[i].daysBefore = d
    THEN rates[CHOOSE i \in 1..Len(rates) :
                  rates[i].daysBefore = d /\ \A j \in 1..(i - 1) : rates[j].daysBefore # d].rate
    ELSE Num(0)

-----------------------------------------------------------------------------
(* PeakDeclineAnalyzer: analyzePeakAndDecline                              *)

\* uniqueSnapshotsInWindow: the distinct snapshot instants of the rows in
\* the window, in insertion order
RECURSIVE UniqueSnapshots(_, _, _, _, _)
UniqueSnapshots(rows, i, windowStartDate, windowEndDate, acc) ==
    IF i > Len(rows) THEN acc
    ELSE Let(rows[i].snapshotDate, LAMBDA t :
         Let(IF /\ ~DateLt(t, windowStartDate) /\ ~DateLt(windowEndDate, t)
                /\ t \notin Range(acc)
             THEN Append(acc, t) ELSE acc,
             LAMBDA next :
                 UniqueSnapshots(rows, i + 1, windowStartDate, windowEndDate, next)))

RECURSIVE SumField(_, _, _)
SumField(rows, i, weightedField) ==
    IF i > Len(rows) THEN Num(0)
    ELSE RAdd(IF weightedField THEN rows[i].weightedAmount ELSE rows[i].amount,
              SumField(rows, i + 1, weightedField))

\* a search that keeps the highest weighted total
RECURSIVE PeakOverWeighted(_, _, _, _, _)
PeakOverWeighted(rows, monthKey, snapshots, i, peakSnapshot) ==
    IF i > Len(snapshots) THEN peakSnapshot
    ELSE Let(SelectSeq(rows, LAMBDA d : d.snapshotDate = snapshots[i]
                                        /\ MonthKeyOf(d.closingMonth) = monthKey),
             LAMBDA dealsForThisSnapshot :
         Let(SumField(dealsForThisSnapshot, 1, TRUE), LAMBDA totalWeighted :
         Let(IF RGt(totalWeighted, peakSnapshot.weighted)
             THEN [date |-> snapshots[i],
                   raw |-> SumField(dealsForThisSnapshot, 1, FALSE),
                   weighted |-> totalWeighted]
             ELSE peakSnapshot,
             LAMBDA next : PeakOverWeighted(rows, monthKey, snapshots, i + 1, next))))

\* the forEach over uniqueSnapshotsInWindow that keeps the highest raw total
RECURSIVE PeakOver(_, _, _, _, _)
PeakOver(rows, monthKey, snapshots, i, peakSnapshot) ==
    IF i > Len(snapshots) THEN peakSnapshot
    ELSE Let(SelectSeq(rows, LAMBDA d : d.snapshotDate = snapshots[i]
                                        /\ MonthKeyOf(d.closingMonth) = monthKey),
             LAMBDA dealsForThisSnapshot :
         Let(SumField(dealsForThisSnapshot, 1, FALSE), LAMBDA totalRaw :
         Let(IF RGt(totalRaw, peakSnapshot.raw)
             THEN [date |-> snapshots[i], raw |-> totalRaw,
                   weighted |-> SumField(dealsForThisSnapshot, 1, TRUE)]
             ELSE peakSnapshot,
             LAMBDA next : PeakOver(rows, monthKey, snapshots, i + 1, next))))

\* the record of one historical month, or Null when the month is skipped
PeakOfMonth(rows, monthKey, closingValues) ==
    Let(MonthStart(monthKey), LAMBDA closingMonthDate :
    Let(LastInstantOfMonth(getUTCFullYear(closingMonthDate), getUTCMonth(closingMonthDate)),
        LAMBDA windowEndDate :
    Let(DateUTC(Num(getUTCFullYear(closingMonthDate)),
                Num(getUTCMonth(closingMonthDate) - 1), Num(1), 0),
        LAMBDA windowStartDate :
    Let(UniqueSnapshots(rows, 1, windowStartDate, windowEndDate, << >>), LAMBDA snapshots :
    Let(PeakOver(rows, monthKey, snapshots, 1,
                 [date |-> [day |-> 0, ms |-> 0], raw |-> Num(0), weighted |-> Num(0)]),
        LAMBDA peakSnapshot :
        IF Len(snapshots) = 0 THEN Null
        ELSE IF monthKey \notin DOMAIN closingValues \/ peakSnapshot.raw = Num(0) THEN Null
        ELSE Let(closingValues[monthKey], LAMBDA actuals :
                 [month |-> monthKey,
                  peakDate |-> peakSnapshot.date,
                  peakRawValue |-> peakSnapshot.raw,
                  peakWeightedValue |-> peakSnapshot.weighted,
                  daysBeforeClosing |-> CeilDays(windowEndDate, peakSnapshot.date),
                  actualClosingRawValue |-> actuals.raw,
                  actualClosingWeightedValue |-> actuals.weighted,
                  declinePercentageRaw |->
                      RMul(RDiv(RSub(peakSnapshot.raw, actuals.raw), peakSnapshot.raw),
                           Num(100)),
                  declinePercentageWeighted |->
                      RMul(RDiv(RSub(peakSnapshot.weighted, actuals.weighted),
                                peakSnapshot.weighted), Num(100))]))))))

\* analyzePeakAndDecline: one record per historical month not skipped, in
\* month order
analyzePeakAndDecline(rows, historicalMonths, closingValues) ==
    SelectSeq([i \in 1..Len(historicalMonths) |->
                  PeakOfMonth(rows, historicalMonths[i], closingValues)],
              LAMBDA r : r # Null)

-----------------------------------------------------------------------------
(* SimilarityFinder                                                        *)

\* getTrajectoryAtDaysBefore (the same text in both classes): the point
\* nearest to targetDays, the first one on a tie, or Null beyond the tolerance
RECURSIVE ClosestTo(_, _, _, _)
ClosestTo(monthData, targetDays, i, best) ==
    IF i > Len(monthData) THEN best
    ELSE Let(IF Abs(monthData[i].daysBeforeClose - targetDays)
                  < Abs(best.daysBeforeClose - targetDays)
             THEN monthData[i] ELSE best,
             LAMBDA next : ClosestTo(monthData, targetDays, i + 1, next))

getTrajectoryAtDaysBefore(monthData, targetDays) ==
    IF Len(monthData) = 0 THEN Null
    ELSE Let(ClosestTo(monthData, targetDays, 2, monthData[1]), LAMBDA closest :
             IF Abs(closest.daysBeforeClose - targetDays) <= 3 THEN closest ELSE Null)

comparisonDays == << 85, 75, 60, 45, 30, 15 >>

\* calculateTrajectorySimilarity
calculateTrajectorySimilarity(currentTrajectory, historicalTrajectory) ==
    SelectSeq(
        [i \in 1..Len(comparisonDays) |->
            Let(getTrajectoryAtDaysBefore(currentTrajectory, comparisonDays[i]),
                LAMBDA currentPoint :
            Let(getTrajectoryAtDaysBefore(historicalTrajectory, comparisonDays[i]),
                LAMBDA historicalPoint :
                IF currentPoint = Null \/ historicalPoint = Null THEN Null
                ELSE IF historicalPoint.weightedPipeline = Num(0) THEN Null
                ELSE [days_before |-> comparisonDays[i],
                      current_value |-> currentPoint.weightedPipeline,
                      historical_value |-> historicalPoint.weightedPipeline,
                      pct_difference |->
                          RMul(RDiv(RSub(currentPoint.weightedPipeline,
                                         historicalPoint.weightedPipeline),
                                    historicalPoint.weightedPipeline), Num(100))]))],
        LAMBDA p : p # Null)

RECURSIVE SumPct(_, _)
SumPct(similarities, i) ==
    IF i > Len(similarities) THEN Num(0)
    ELSE RAdd(similarities[i].pct_difference, SumPct(similarities, i + 1))

RECURSIVE SumSqDev(_, _, _)
SumSqDev(similarities, avg, i) ==
    IF i > Len(similarities) THEN Num(0)
    ELSE RAdd(RPow(RSub(similarities[i].pct_difference, avg), 2),
              SumSqDev(similarities, avg, i + 1))

\* the comparisons in the order of their months
InOrderOfMonths(s) == s

\* comparisons.sort((a, b) => a.score - b.score), stable
RECURSIVE SortByScore(_)
SortByScore(s) ==
    IF Len(s) <= 1 THEN s
    ELSE Let(s[Len(s)], LAMBDA x :
         Let(SortByScore(SubSeq(s, 1, Len(s) - 1)), LAMBDA done :
         Let(Cardinality({ j \in 1..Len(done) : ~RLt(x.score, done[j].score) }),
             LAMBDA k : SubSeq(done, 1, k) \o << x >> \o SubSeq(done, k + 1, Len(done)))))

\* the comparison of one historical month, or Null when nothing matches
ComparisonOf(currentTrajectory, historicalMonth, byMonth, closingValues, forecastValue) ==
    Let(IF historicalMonth \in DOMAIN byMonth THEN byMonth[historicalMonth] ELSE << >>,
        LAMBDA historicalTrajectory :
    IF Len(historicalTrajectory) = 0 THEN Null
    ELSE
    Let(calculateTrajectorySimilarity(currentTrajectory, historicalTrajectory),
        LAMBDA similarities :
    IF Len(similarities) = 0 THEN Null
    ELSE
    Let(RDiv(SumPct(similarities, 1), Num(Len(similarities))), LAMBDA avgPctDiff :
    Let(PowInv(RDiv(SumSqDev(similarities, avgPctDiff, 1), Num(Len(similarities))), 2),
        LAMBDA variance :
    Let(RAdd(RAbs(avgPctDiff), variance), LAMBDA trajectoryScore :
    Let(IF historicalMonth \in DOMAIN closingValues
        THEN closingValues[historicalMonth].weighted ELSE Num(0),
        LAMBDA historicalClosing :
    Let(IF RGt(forecastValue, Num(0))
        THEN RDiv(RAbs(RSub(historicalClosing, forecastValue)), forecastValue)
        ELSE Num(1),
        LAMBDA forecastDiff :
        [historical_month |-> historicalMonth,
         avg_pct_diff |-> avgPctDiff,
         variance |-> variance,
         similarities |-> similarities,
         historical_closing |-> historicalClosing,
         score |-> RAdd(RMul(trajectoryScore, Rat(7, 10)),
                        RMul(forecastDiff, Rat(3, 10)))])))))))

\* findSimilarHistoricalMonths
findSimilarHistoricalMonths(currentMonth, forecastValue, byMonth, historicalMonths, closingValues) ==
    Let(IF currentMonth \in DOMAIN byMonth THEN byMonth[currentMonth] ELSE << >>,
        LAMBDA currentTrajectory :
    IF Len(currentTrajectory) = 0 THEN << >>
    ELSE
    Let(SelectSeq(historicalMonths,
                  LAMBDA month : ~DateLt(MonthStart(month), MonthStart(202501))),
        LAMBDA historicalMonthsForComparison :
    Let(SelectSeq([i \in 1..Len(historicalMonthsForComparison) |->
                      ComparisonOf(currentTrajectory, historicalMonthsForComparison[i],
                                   byMonth, closingValues, forecastValue)],
                  LAMBDA c : c # Null),
        LAMBDA comparisons :
    Let(SortByScore(comparisons), LAMBDA sorted :
        SubSeq(sorted, 1, Min2(3, Len(sorted)))))))

-----------------------------------------------------------------------------
(* ForecastEngine: getForecast, getAppendixData and the other getters      *)

\* monthData.reduce((latest, current) =>
\*     current.snapshotDate > latest.snapshotDate ? current : latest)
RECURSIVE LatestOf(_, _, _)
LatestOf(points, i, latest) ==
    IF i > Len(points) THEN latest
    ELSE Let(IF DateLt(latest.snapshotDate, points[i].snapshotDate)
             THEN points[i] ELSE latest,
             LAMBDA next : LatestOf(points, i + 1, next))

\* monthData.map(d => ({snapshotDate, daysBeforeClose, weightedAmount, rawAmount}))
TrajectoryOf(monthData) ==
    [i \in 1..Len(monthData) |->
        [snapshotDate |-> monthData[i].snapshotDate,
         daysBeforeClose |-> monthData[i].daysBeforeClose,
         weightedAmount |-> monthData[i].weightedPipeline,
         rawAmount |-> monthData[i].rawPipeline]]

\* one pass of the loop of getForecast, for the day d: the point pushed
ForecastStep(currentValue, currentDate, d, rates) ==
    [snapshotDate |-> PlusOneDay(currentDate), daysBeforeClose |-> d,
     weightedAmount |-> RMul(currentValue, RAdd(Num(1), RateAt(rates, d))),
     rawAmount |-> Num(0)]

\* the passes for the days d down to last, in this order: the passes of the
\* later half go on from the value and the date the earlier half ends with
\* (the run is halved to keep its evaluation shallow)
RECURSIVE ForecastRun(_, _, _, _, _)
ForecastRun(currentValue, currentDate, d, last, rates) ==
    IF d < last THEN << >>
    ELSE IF d = last THEN << ForecastStep(currentValue, currentDate, d, rates) >>
    ELSE Let(ForecastRun(currentValue, currentDate, d, (d + last + 1) \div 2, rates),
             LAMBDA earlier :
             earlier \o ForecastRun(earlier[Len(earlier)].weightedAmount,
                                    earlier[Len(earlier)].snapshotDate,
                                    (d + last + 1) \div 2 - 1, last, rates))

\* the loop for (d = daysToClose - 1; d >= 0; d--) of getForecast: the
\* points pushed to forecastTrajectory
ForecastSteps(currentValue, currentDate, d, rates) ==
    ForecastRun(currentValue, currentDate, d, 0, rates)

\* the NewAnalysisResult of one current month
ForecastOf(monthKey, byMonth, historicalMonths, closingValues, rates) ==
    Let(IF monthKey \in DOMAIN byMonth THEN byMonth[monthKey] ELSE << >>, LAMBDA monthData :
    IF Len(monthData) = 0
    THEN [month |-> monthKey, currentRawValue |-> Num(0), currentWeightedValue |-> Num(0),
          daysToClose |-> 0, totalProjectedGrowth |-> Num(0), forecast |-> Null,
          trajectory |-> << >>, forecastTrajectory |-> << >>, similarMonths |-> << >>]
    ELSE
    Let(LatestOf(monthData, 2, monthData[1]), LAMBDA latestSnapshot :
    Let(latestSnapshot.daysBeforeClose, LAMBDA daysToClose :
    IF daysToClose > 89
    THEN [month |-> monthKey, currentRawValue |-> latestSnapshot.rawPipeline,
          currentWeightedValue |-> latestSnapshot.weightedPipeline,
          daysToClose |-> daysToClose, totalProjectedGrowth |-> Num(0), forecast |-> Null,
          trajectory |-> TrajectoryOf(monthData), forecastTrajectory |-> << >>,
          similarMonths |-> << >>]
    ELSE
    Let(ForecastSteps(latestSnapshot.weightedPipeline, latestSnapshot.snapshotDate,
                      daysToClose - 1, rates),
        LAMBDA forecastTrajectory :
    Let(IF Len(forecastTrajectory) = 0 THEN latestSnapshot.weightedPipeline
        ELSE forecastTrajectory[Len(forecastTrajectory)].weightedAmount,
        LAMBDA finalForecast :
        [month |-> monthKey, currentRawValue |-> latestSnapshot.rawPipeline,
         currentWeightedValue |-> latestSnapshot.weightedPipeline,
         daysToClose |-> daysToClose,
         totalProjectedGrowth |->
             RSub(RDiv(finalForecast, latestSnapshot.weightedPipeline), Num(1)),
         forecast |-> finalForecast,
         trajectory |-> TrajectoryOf(monthData),
         forecastTrajectory |-> forecastTrajectory,
         similarMonths |-> findSimilarHistoricalMonths(monthKey, finalForecast, byMonth,
                                                       historicalMonths, closingValues)])))))

\* getForecast()
getForecast(self) ==
    [i \in 1..Len(self.currentMonths) |->
        ForecastOf(self.currentMonths[i], self.aggregatedDataByMonth,
                   self.allHistoricalMonths, self.actualClosingValues,
                   self.forecastGrowthRates)]

\* one pass of the loop of getAppendixData, for the day d: the entry pushed.
\* The date text toISOString().split('T')[0] is kept as the day number.
BreakdownStep(currentValue, currentDate, d, rates) ==
    [date |-> PlusOneDay(currentDate).day, daysBefore |-> d, startValue |-> currentValue,
     growthRate |-> RateAt(rates, d),
     endValue |-> RMul(currentValue, RAdd(Num(1), RateAt(rates, d)))]

\* the passes for the days d down to last, in this order: the passes of the
\* later half go on from the end value and the date the earlier half ends
\* with (the run is halved to keep its evaluation shallow)
RECURSIVE BreakdownRun(_, _, _, _, _)
BreakdownRun(currentValue, currentDate, d, last, rates) ==
    IF d < last THEN << >>
    ELSE IF d = last THEN << BreakdownStep(currentValue, currentDate, d, rates) >>
    ELSE Let(BreakdownRun(currentValue, currentDate, d, (d + last + 1) \div 2, rates),
             LAMBDA earlier :
             earlier \o BreakdownRun(earlier[Len(earlier)].endValue,
                                     [day |-> earlier[Len(earlier)].date,
                                      ms |-> currentDate.ms],
                                     (d + last + 1) \div 2 - 1, last, rates))

\* the loop of getAppendixData: the entries pushed to dailyBreakdown
BreakdownSteps(currentValue, currentDate, d, rates) ==
    BreakdownRun(currentValue, currentDate, d, 0, rates)

Reverse(s) == [i \in 1..Len(s) |-> s[Len(s) + 1 - i]]

\* !forecastResult.forecast
Falsy(x) == x = Null \/ x = Num(0) \/ x = NaN

\* getAppendixData()
getAppendixData(self, now) ==
    Let(SelectSeq(getForecast(self), LAMBDA r : ~Falsy(r.forecast)), LAMBDA kept :
        [smoothedGrowthRates |-> self.forecastGrowthRates,
         medianGrowthRates |-> self.medianGrowthRates,
         forecastCalculations |->
             SelectSeq([i \in 1..Len(kept) |->
                           [month |-> kept[i].month,
                            startValue |-> kept[i].currentWeightedValue,
                            endValue |-> kept[i].forecast,
                            daysToClose |-> kept[i].daysToClose,
                            dailyBreakdown |->
                                Reverse(BreakdownSteps(
                                    kept[i].currentWeightedValue,
                                    IF Len(kept[i].trajectory) > 0
                                    THEN kept[i].trajectory[1].snapshotDate ELSE now,
                                    kept[i].daysToClose - 1, self.forecastGrowthRates))]],
                       LAMBDA f : Len(f.dailyBreakdown) > 0)])

\* getHistoricalData()
getHistoricalData(self) ==
    [monthKey \in { k \in Range(self.allHistoricalMonths) :
                      k \in DOMAIN self.aggregatedDataByMonth } |->
        TrajectoryOf(self.aggregatedDataByMonth[monthKey])]

\* hasData()
hasData(self) == Len(self.allData) > 0

-----------------------------------------------------------------------------
(* GoalSeekEngine: generateGoalSeekTrajectory                              *)

\* rates.filter(r => r.daysBefore < daysToClose)
\*      .reduce((acc, r) => acc * (1 + r.rate), startingValue)
\* the reduce over the entries from..to, in this order, starting from acc
\* (the entries are taken by halves to keep the evaluation shallow)
RECURSIVE CompoundOver(_, _, _, _)
CompoundOver(rates, from, to, acc) ==
    IF from > to THEN acc
    ELSE IF from = to THEN RMul(acc, RAdd(Num(1), rates[from].rate))
    ELSE Let(CompoundOver(rates, from, (from + to) \div 2, acc), LAMBDA half :
             CompoundOver(rates, (from + to) \div 2 + 1, to, half))

Compound(rates, i, startingValue) == CompoundOver(rates, 1, i, startingValue)

BaseForecast(rates, daysToClose, startingValue) ==
    Let(SelectSeq(rates, LAMBDA r : r.daysBefore < daysToClose), LAMBDA filtered :
        Compound(filtered, Len(filtered), startingValue))

\* a projection of the day of the close only
LastStepOnly(currentValue, currentDate, d, rates, requiredDailyLift) ==
    IF d < 0 THEN << >>
    ELSE << [snapshotDate |-> PlusOneDay(currentDate), daysBeforeClose |-> 0,
             weightedAmount |-> RMul(currentValue,
                                     RAdd(Num(1), RAdd(RateAt(rates, 0), requiredDailyLift))),
             rawAmount |-> Num(0)] >>

\* the loop for (d = daysToClose - 1; d >= 0; d--) of
\* generateGoalSeekTrajectory: the points pushed after latestPoint
RECURSIVE GoalSteps(_, _, _, _, _)
GoalSteps(currentValue, currentDate, d, rates, requiredDailyLift) ==
    IF d < 0 THEN << >>
    ELSE Let(RAdd(RateAt(rates, d), requiredDailyLift), LAMBDA adjustedRate :
         Let(RMul(currentValue, RAdd(Num(1), adjustedRate)), LAMBDA value :
         Let(PlusOneDay(currentDate), LAMBDA date :
             << [snapshotDate |-> date, daysBeforeClose |-> d, weightedAmount |-> value,
                 rawAmount |-> Num(0)] >>
             \o GoalSteps(value, date, d - 1, rates, requiredDailyLift))))

\* generateGoalSeekTrajectory(originalTrajectory, goalValue)
generateGoalSeekTrajectory(self, originalTrajectory, goalValue) ==
    IF Len(originalTrajectory) = 0 THEN << >>
    ELSE
    Let(LatestOf(originalTrajectory, 2, originalTrajectory[1]), LAMBDA latestPoint :
    Let(latestPoint.weightedAmount, LAMBDA startingValue :
    Let(latestPoint.daysBeforeClose, LAMBDA daysToClose :
    IF RLe(startingValue, Num(0)) \/ daysToClose <= 0 THEN originalTrajectory
    ELSE
    Let(BaseForecast(self.forecastGrowthRates, daysToClose, startingValue),
        LAMBDA baseForecast :
    IF RLe(baseForecast, Num(0)) THEN originalTrajectory
    ELSE
    Let(RDiv(goalValue, baseForecast), LAMBDA requiredTotalGrowth :
    Let(RSub(PowInv(requiredTotalGrowth, daysToClose), Num(1)), LAMBDA requiredDailyLift :
    Let(<< latestPoint >> \o GoalSteps(startingValue, latestPoint.snapshotDate,
                                       daysToClose - 1, self.forecastGrowthRates,
                                       requiredDailyLift),
        LAMBDA projectedTrajectory :
        originalTrajectory
        \o SelectSeq(projectedTrajectory,
                     LAMBDA q : q.daysBeforeClose < latestPoint.daysBeforeClose))))))))

-----------------------------------------------------------------------------
(* BacktestRunner: BacktestAnalyzer                                        *)

\* Array.prototype.slice(start, end): a negative index counts from the end
Slice(s, start, end) ==
    SubSeq(s,
           (IF start < 0 THEN Max2(Len(s) + start, 0) ELSE Min2(start, Len(s))) + 1,
           IF end < 0 THEN Max2(Len(s) + end, 0) ELSE Min2(end, Len(s)))

\* categorizeMonths of BacktestAnalyzer: the historical month keys sorted
\* by date
BacktestHistoricalMonths(byMonth, closingValues, now) ==
    SelectSeq(SortedKeys(DOMAIN byMonth), LAMBDA k : IsHistorical(k, closingValues, now))

\* startMonth = '2025-04'
startMonth == 202504

testPoints == << 60, 45, 30, 15, 7, 1 >>

\* a training window that reaches past the test month
TrainingMonthsAhead(historicalMonths, i) == Slice(historicalMonths, i - 1, i + 2)

\* this.allHistoricalMonths.slice(i - 3, i), i being the 0-based index
TrainingMonths(historicalMonths, i) == Slice(historicalMonths, i - 3, i)

\* BacktestAnalyzer.calculateGrowthRates, the body of the loop over the
\* consecutive pairs: dailyRates[day].push(growth) for the days of the gap
\* (dailyRates is a function of the days 0..89, an absent key being << >>)
BacktestPushPair(dailyRates, previous, current) ==
    Let(previous.daysBeforeClose - current.daysBeforeClose, LAMBDA daysDiff :
    IF ~(daysDiff > 0 /\ daysDiff <= 3) THEN dailyRates
    ELSE IF ~RGt(previous.weightedPipeline, Num(0)) THEN dailyRates
    ELSE Let(RSub(PowInv(RDiv(current.weightedPipeline, previous.weightedPipeline),
                         daysDiff), Num(1)),
             LAMBDA growth :
             IF RGt(growth, Rat(-1, 2)) /\ RLt(growth, Rat(1, 2))
             THEN [day \in DOMAIN dailyRates |->
                      IF \E d \in 0..(daysDiff - 1) : day = current.daysBeforeClose + d
                      THEN Append(dailyRates[day], growth)
                      ELSE dailyRates[day]]
             ELSE dailyRates))

\* for (let i = 0; i < monthData.length - 1; i++), i being the 1-based index
RECURSIVE BacktestPushMonth(_, _, _)
BacktestPushMonth(dailyRates, monthData, i) ==
    IF i >= Len(monthData) THEN dailyRates
    ELSE BacktestPushMonth(BacktestPushPair(dailyRates, monthData[i], monthData[i + 1]),
                           monthData, i + 1)

\* months.forEach(monthKey => ...) of BacktestAnalyzer.calculateGrowthRates
RECURSIVE BacktestDailyRates(_, _, _, _)
BacktestDailyRates(dailyRates, byMonth, months, i) ==
    IF i > Len(months) THEN dailyRates
    ELSE BacktestDailyRates(IF months[i] \in DOMAIN byMonth
                            THEN BacktestPushMonth(dailyRates, byMonth[months[i]], 1)
                            ELSE dailyRates,
                            byMonth, months, i + 1)

\* the loop for (let day = 0; day <= 89; day++) of the BacktestAnalyzer
BacktestMedianRates(dailyRates) ==
    [i \in 1..90 |->
        [daysBefore |-> i - 1,
         rate |-> IF Len(dailyRates[i - 1]) > 0
                  THEN Let(SortRates(dailyRates[i - 1]), LAMBDA sortedRates :
                       Let(Len(sortedRates) \div 2, LAMBDA mid :
                           IF Len(sortedRates) % 2 # 0 THEN sortedRates[mid + 1]
                           ELSE RDiv(RAdd(sortedRates[mid], sortedRates[mid + 1]),
                                     Num(2))))
                  ELSE Num(0)]]

\* sum += medianRates[j].rate for j = start..end (0-based)
RECURSIVE BacktestWindowSum(_, _, _)
BacktestWindowSum(medianRates, j, end) ==
    IF j > end THEN Num(0)
    ELSE RAdd(medianRates[j + 1].rate, BacktestWindowSum(medianRates, j + 1, end))

\* a smoothing over the window of radius 1
BacktestSmoothedRatesRadiusOne(medianRates) ==
    [i1 \in 1..Len(medianRates) |->
        [daysBefore |-> medianRates[i1].daysBefore,
         rate |-> RDiv(BacktestWindowSum(medianRates, Max2(0, i1 - 1 - 1),
                                         Min2(Len(medianRates) - 1, i1 - 1 + 1)),
                       Num(Min2(Len(medianRates) - 1, i1 - 1 + 1)
                           - Max2(0, i1 - 1 - 1) + 1))]]

\* the smoothing loop of the BacktestAnalyzer, windowRadius = 2
BacktestSmoothedRates(medianRates) ==
    [i1 \in 1..Len(medianRates) |->
        [daysBefore |-> medianRates[i1].daysBefore,
         rate |-> RDiv(BacktestWindowSum(medianRates, Max2(0, i1 - 1 - 2),
                                         Min2(Len(medianRates) - 1, i1 - 1 + 2)),
                       Num(Min2(Len(medianRates) - 1, i1 - 1 + 2)
                           - Max2(0, i1 - 1 - 2) + 1))]]

\* BacktestAnalyzer.calculateGrowthRates(months): the smoothed curve
BacktestCalculateGrowthRates(byMonth, months) ==
    BacktestSmoothedRates(
        BacktestMedianRates(
            BacktestDailyRates([day \in 0..89 |-> << >>], byMonth, months, 1)))

\* a compounding that stops before the last day
RECURSIVE PredictToDayOne(_, _, _)
PredictToDayOne(prediction, d, rates) ==
    IF d < 1 THEN prediction
    ELSE PredictToDayOne(RMul(prediction, RAdd(Num(1), RateAt(rates, d))), d - 1, rates)

\* the loop for (d = startPoint.daysBeforeClose - 1; d >= 0; d--)
RECURSIVE Predict(_, _, _)
Predict(prediction, d, rates) ==
    IF d < 0 THEN prediction
    ELSE Predict(RMul(prediction, RAdd(Num(1), RateAt(rates, d))), d - 1, rates)

\* the results pushed for the test month at 0-based index i
TestMonthResults(byMonth, closingValues, historicalMonths, i) ==
    Let(historicalMonths[i + 1], LAMBDA testMonth :
    Let(TrainingMonths(historicalMonths, i), LAMBDA trainingMonths :
    IF Len(trainingMonths) # 3 THEN << >>
    ELSE
    Let(BacktestCalculateGrowthRates(byMonth, trainingMonths), LAMBDA backtestGrowthRates :
    Let(IF testMonth \in DOMAIN byMonth THEN byMonth[testMonth] ELSE << >>,
        LAMBDA monthData :
    Let(IF testMonth \in DOMAIN closingValues
        THEN closingValues[testMonth].weighted ELSE Null,
        LAMBDA actual :
    IF Falsy(actual) THEN << >>
    ELSE SelectSeq(
             [j \in 1..Len(testPoints) |->
                 Let(getTrajectoryAtDaysBefore(monthData, testPoints[j]),
                     LAMBDA startPoint :
                     IF startPoint = Null THEN Null
                     ELSE [month |-> testMonth,
                           daysBefore |-> startPoint.daysBeforeClose,
                           prediction |-> Predict(startPoint.weightedPipeline,
                                                  startPoint.daysBeforeClose - 1,
                                                  backtestGrowthRates),
                           actual |-> actual])],
             LAMBDA r : r # Null))))))

RECURSIVE ResultsFrom(_, _, _, _)
ResultsFrom(byMonth, closingValues, historicalMonths, i) ==
    IF i >= Len(historicalMonths) THEN << >>
    ELSE TestMonthResults(byMonth, closingValues, historicalMonths, i)
         \o ResultsFrom(byMonth, closingValues, historicalMonths, i + 1)

\* new BacktestAnalyzer(aggregatedDataByMonth, actualClosingValues)
\*     .getBacktestResults()
getBacktestResults(byMonth, closingValues, now) ==
    Let(BacktestHistoricalMonths(byMonth, closingValues, now), LAMBDA historicalMonths :
    \* findIndex(month => month >= this.startMonth), 0-based, -1 if none
    Let(FirstIndex(historicalMonths, LAMBDA month : month >= startMonth) - 1,
        LAMBDA startIndex :
        IF startIndex = -1 \/ startIndex < 3 THEN << >>
        ELSE ResultsFrom(byMonth, closingValues, historicalMonths, startIndex)))

-----------------------------------------------------------------------------
(* loadData                                                                *)

\* the fields of a NewPipelineTrajectoryAnalyzer after construction
FreshAnalyzer ==
    [allData |-> << >>,
     aggregatedDataByMonth |-> << >>,
     allHistoricalMonths |-> << >>,
     currentMonths |-> << >>,
     actualClosingValues |-> << >>,
     forecastGrowthRates |-> << >>,
     medianGrowthRates |-> << >>,
     peakData |-> << >>]

\* loadData(csvText): the fields after the call.  rows is what parseCSV
\* resolves to; now is what new Date() returns in categorizeMonths.
loadData(self, rows, now) ==
    Let(processRawData(rows), LAMBDA data :
    IF Len(data) = 0 THEN [self EXCEPT !.allData = data]
    ELSE
    Let(aggregateDataByMonth(self.aggregatedDataByMonth, data), LAMBDA byMonth :
    Let(calculateActualClosingValues(self.actualClosingValues, byMonth),
        LAMBDA closingValues :
    Let(categorizeMonths(byMonth, closingValues, now), LAMBDA classes :
    Let(calculateGrowthRates(byMonth, classes.allHistoricalMonths), LAMBDA curves :
        [allData |-> data,
         aggregatedDataByMonth |-> byMonth,
         allHistoricalMonths |-> classes.allHistoricalMonths,
         currentMonths |-> classes.currentMonths,
         actualClosingValues |-> closingValues,
         forecastGrowthRates |-> curves.smoothed,
         medianGrowthRates |-> curves.median,
         peakData |-> analyzePeakAndDecline(data, classes.allHistoricalMonths,
                                            closingValues)])))))

\* the analyzer object as a record of its fields
Self ==
    [allData |-> allData,
     aggregatedDataByMonth |-> aggregatedDataByMonth,
     allHistoricalMonths |-> allHistoricalMonths,
     currentMonths |-> currentMonths,
     actualClosingValues |-> actualClosingValues,
     forecastGrowthRates |-> forecastGrowthRates,
     medianGrowthRates |-> medianGrowthRates,
     peakData |-> peakData]

-----------------------------------------------------------------------------
(* Input texts                                                             *)

\* the decimal digits of a natural number
RECURSIVE NumText(_)
NumText(n) == IF n < 10 THEN << Digits[n + 1] >> ELSE NumText(n \div 10) \o << Digits[(n % 10) + 1] >>

\* "MM/DD/YYYY"
MDYText(m, d, y) == Pad(m, 2) \o << "/" >> \o Pad(d, 2) \o << "/" >> \o Pad(y, 4)

\* "YYYY-MM-DD"
ISODateText(y, m, d) == Pad(y, 4) \o << "-" >> \o Pad(m, 2) \o << "-" >> \o Pad(d, 2)

Row(snap, date, amount, stage) ==
    [snapShotTime |-> snap, date |-> date, totalAmount |-> amount, stage |-> stage]

Noon == 12 * 60 * 60 * 1000

\* the instant at millisecond ms of the day on which a snapshot taken before
\* the last millisecond of the day is `days` days before the close of the month
SnapshotAt(monthKey, days, ms) ==
    [day |-> LastInstantOfMonth(KeyYear(monthKey), KeyMonth(monthKey) - 1).day - days + 1,
     ms |-> ms]

\* a well-formed CSV row: one deal of `amount` in `stage`, closing in
\* monthKey, seen at noon `days` days before the close
Deal(monthKey, days, amount, stage) ==
    Row(ToISOString(SnapshotAt(monthKey, days, Noon)),
        MDYText(KeyMonth(monthKey), 15, KeyYear(monthKey)),
        NumText(amount), << stage >>)

-----------------------------------------------------------------------------
(* The analyzer as a state machine                                         *)

At(y, m, d, ms) == [day |-> DaysFromCivil(y, m, d), ms |-> ms]

NoBacktest ==
    [runs |-> 0, choice |-> << >>, historical |-> << >>, results |-> << >>,
     baseChoice |-> << >>, baseResults |-> << >>]

\* new NewPipelineTrajectoryAnalyzer(), with the clock reading `now`
Constructed(now) ==
    /\ rawData = << >>
    /\ mapped = << >>
    /\ allData = FreshAnalyzer.allData
    /\ aggregatedDataByMonth = FreshAnalyzer.aggregatedDataByMonth
    /\ allHistoricalMonths = FreshAnalyzer.allHistoricalMonths
    /\ currentMonths = FreshAnalyzer.currentMonths
    /\ actualClosingValues = FreshAnalyzer.actualClosingValues
    /\ forecastGrowthRates = FreshAnalyzer.forecastGrowthRates
    /\ medianGrowthRates = FreshAnalyzer.medianGrowthRates
    /\ peakData = FreshAnalyzer.peakData
    /\ today = now
    /\ loads = 0
    /\ lastCall = "constructor"
    /\ outcome = "returned"
    /\ result = Null
    /\ bt = NoBacktest

\* the fields of the analyzer become those of `after`
Becomes(after) ==
    /\ allData' = after.allData
    /\ aggregatedDataByMonth' = after.aggregatedDataByMonth
    /\ allHistoricalMonths' = after.allHistoricalMonths
    /\ currentMonths' = after.currentMonths
    /\ actualClosingValues' = after.actualClosingValues
    /\ forecastGrowthRates' = after.forecastGrowthRates
    /\ medianGrowthRates' = after.medianGrowthRates
    /\ peakData' = after.peakData

\* analyzer.loadData(csvString), the CSV holding `rows`
LoadData(rows) ==
    /\ rawData' = rows
    /\ mapped' = MapRows(rows)
    /\ Becomes(loadData(Self, rows, today))
    /\ loads' = loads + 1
    /\ lastCall' = "loadData"
    /\ outcome' = "returned"
    /\ result' = Null
    /\ UNCHANGED << today, bt >>

\* a query: it reads the analyzer and returns `value`; no query of the
\* analyzer has a throw statement or dereferences a missing value
Returns(name, value) ==
    /\ lastCall' = name
    /\ outcome' = "returned"
    /\ result' = value
    /\ UNCHANGED << rawData, mapped, allData, aggregatedDataByMonth, allHistoricalMonths,
                    currentMonths, actualClosingValues, forecastGrowthRates,
                    medianGrowthRates, peakData, today, loads, bt >>

HasData == Returns("hasData", hasData(Self))

GetForecast == Returns("getForecast", getForecast(Self))

GetAppendixData == Returns("getAppendixData", getAppendixData(Self, today))

GetHistoricalData == Returns("getHistoricalData", getHistoricalData(Self))

GetPeakDeclineData == Returns("getPeakDeclineData", peakData)

GetAggregatedDataByMonth == Returns("getAggregatedDataByMonth", aggregatedDataByMonth)

GetActualClosingValues == Returns("getActualClosingValues", actualClosingValues)

GenerateGoalSeekTrajectory(originalTrajectory, goalValue) ==
    Returns("generateGoalSeekTrajectory",
            [originalTrajectory |-> originalTrajectory, goalValue |-> goalValue,
             trajectory |-> generateGoalSeekTrajectory(Self, originalTrajectory, goalValue)])

-----------------------------------------------------------------------------
(* Specification Spec: one analyzer, loaded and queried                    *)

MaxLoads == 2

MaxGoalDays == 2

\* new Date() while the analyzer is in use: 2025-04-29T18:00:00.000Z
Clock == At(2025, 4, 29, 64800000)

\* a closed month, an open month about to close and an open month far from
\* its close, each absent or present in one of its variants
MarchRows ==
    << << >>,
       << Deal(202503, 2, 100, "FUNDED"), Deal(202503, 1, 110, "FUNDED"),
          Deal(202503, 0, 121, "FUNDED") >>,
       << Deal(202503, 15, 80, "APPROVED"), Deal(202503, 0, 90, "APPROVED") >> >>

AprilRows ==
    << << >>,
       << Deal(202504, 3, 200, "FUNDED"), Deal(202504, 2, 210, "FUNDED") >>,
       << Deal(202504, 2, 50, "READY_FOR_FUNDING") >> >>

MayRows ==
    << << >>, << Deal(202505, 16, 300, "APPROVED") >> >>

\* a CSV none of whose rows is a valid observation
JunkRows == << Row(<< "x" >>, << "y" >>, << "z" >>, << "FUNDED" >>) >>

Datasets ==
    { MarchRows[i] \o AprilRows[j] \o MayRows[k] :
          i \in DOMAIN MarchRows, j \in DOMAIN AprilRows, k \in DOMAIN MayRows }
    \cup { JunkRows }

\* a trajectory a caller can hold without having loaded anything
SampleTrajectory ==
    << [snapshotDate |-> At(2025, 4, 29, Noon), daysBeforeClose |-> 1,
        weightedAmount |-> Num(100), rawAmount |-> Num(100)] >>

Trajectories ==
    { TrajectoryOf(aggregatedDataByMonth[m]) : m \in DOMAIN aggregatedDataByMonth }
    \cup { SampleTrajectory, << >> }

Goals == { Num(190), Num(220), Num(840), Num(1330), Num(1470) }

\* The goals for which Math.pow(requiredTotalGrowth, 1 / daysToClose) is an
\* exact fraction, so that the projection is computed without rounding.
ExactRoot(x, k) ==
    \/ k <= 1
    \/ /\ k <= MaxGoalDays
       /\ IsPower(x, k)

GoalSeekInput(originalTrajectory, goalValue) ==
    IF Len(originalTrajectory) = 0 THEN TRUE
    ELSE Let(LatestOf(originalTrajectory, 2, originalTrajectory[1]), LAMBDA latestPoint :
         Let(BaseForecast(forecastGrowthRates, latestPoint.daysBeforeClose,
                          latestPoint.weightedAmount),
             LAMBDA baseForecast :
             \/ RLe(latestPoint.weightedAmount, Num(0))
             \/ RLe(baseForecast, Num(0))
             \/ ExactRoot(RDiv(goalValue, baseForecast), latestPoint.daysBeforeClose)))

Init == Constructed(Clock)

Load == loads < MaxLoads /\ \E rows \in Datasets : LoadData(rows)

GoalSeek ==
    \E originalTrajectory \in Trajectories, goalValue \in Goals :
        /\ GoalSeekInput(originalTrajectory, goalValue)
        /\ GenerateGoalSeekTrajectory(originalTrajectory, goalValue)

Next ==
    \/ Load
    \/ HasData
    \/ GetForecast
    \/ GetAppendixData
    \/ GetHistoricalData
    \/ GetPeakDeclineData
    \/ GetAggregatedDataByMonth
    \/ GetActualClosingValues
    \/ GoalSeek

Spec == Init /\ [][Next]_vars

-----------------------------------------------------------------------------
(* Properties of the analyzer, under Spec                                   *)

\* the point of the returned trajectory at daysBeforeClose = 0 that was
\* projected last
LastPoint(trajectory) == trajectory[Len(trajectory)]

\* |a - b| <= 1e-6 x |b|
WithinRelative(a, b) == RLe(RAbs(RSub(a, b)), RMul(RAbs(b), Rat(1, 1000000)))

\* C1: when the latest point of the trajectory has weightedAmount > 0 and
\* daysBeforeClose > 0 and the goal is > 0, the last point of the trajectory
\* that generateGoalSeekTrajectory returns is at daysBeforeClose = 0 and its
\* weightedAmount is the goal within 1e-6 relative.
C1_GoalSeekReachesGoal ==
    (/\ lastCall = "generateGoalSeekTrajectory"
     /\ Len(result.originalTrajectory) > 0
     /\ RGt(LatestOf(result.originalTrajectory, 2,
                     result.originalTrajectory[1]).weightedAmount, Num(0))
     /\ LatestOf(result.originalTrajectory, 2,
                 result.originalTrajectory[1]).daysBeforeClose > 0
     /\ RGt(result.goalValue, Num(0)))
    => /\ LastPoint(result.trajectory).daysBeforeClose = 0
       /\ WithinRelative(LastPoint(result.trajectory).weightedAmount, result.goalValue)

\* the derived state of an analyzer
Derived(self) ==
    [aggregatedDataByMonth |-> self.aggregatedDataByMonth,
     actualClosingValues |-> self.actualClosingValues,
     allHistoricalMonths |-> self.allHistoricalMonths,
     currentMonths |-> self.currentMonths,
     forecastGrowthRates |-> self.forecastGrowthRates,
     medianGrowthRates |-> self.medianGrowthRates,
     peakData |-> self.peakData]

\* C4: after any sequence of loads, the trajectories, closing values,
\* classification of months, growth curves and peak data are those of a
\* fresh analyzer that loaded the last input only.
C4_ReloadReplacesState ==
    loads > 0 => Derived(Self) = Derived(loadData(FreshAnalyzer, rawData, today))

\* C5: after a load none of whose rows is a valid observation, whatever was
\* loaded before, hasData() is false and the dependent queries are empty.
C5_NoDataStateIsEmpty ==
    (loads > 0 /\ \A i \in DOMAIN mapped : mapped[i] = Null)
    => /\ ~hasData(Self)
       /\ getForecast(Self) = << >>
       /\ DOMAIN getHistoricalData(Self) = {}
       /\ peakData = << >>
       /\ getAppendixData(Self, today).forecastCalculations = << >>
       /\ DOMAIN aggregatedDataByMonth = {}

\* C6: a forecast query (getForecast, getAppendixData, or
\* generateGoalSeekTrajectory with a non-empty trajectory) on an analyzer
\* that never loaded anything ends in an error, not in a returned value.
C6_QueryBeforeLoadFails ==
    (/\ loads = 0
     /\ \/ lastCall \in { "getForecast", "getAppendixData" }
        \/ /\ lastCall = "generateGoalSeekTrajectory"
           /\ Len(result.originalTrajectory) > 0)
    => outcome = "threw"

-----------------------------------------------------------------------------
(* Specification SpecParse: one load of one CSV, row by row               *)

\* the last day of March 2025, the closing month of the sample rows
MarchClose == LastInstantOfMonth(2025, 2)

\* snapshot instants around both ends of the accepted window of March 2025
SnapshotInstants ==
    { [day |-> MarchClose.day - 89, ms |-> 0],
      [day |-> MarchClose.day - 89, ms |-> MsPerDay - 1],
      [day |-> MarchClose.day - 10, ms |-> Noon],
      [day |-> MarchClose.day, ms |-> MsPerDay - 1],
      [day |-> MarchClose.day + 6, ms |-> 0],
      [day |-> MarchClose.day + 6, ms |-> MsPerDay - 1],
      [day |-> MarchClose.day + 29, ms |-> Noon] }

SnapshotTexts ==
    { ToISOString(t) : t \in SnapshotInstants }
    \cup { << " " >> \o ToISOString([day |-> MarchClose.day - 10, ms |-> 0]),
           << "n", "o", "w" >> }

DateTexts ==
    { MDYText(3, 15, 2025),
      ISODateText(2025, 3, 15),
      << "3", "/", "1", "5", "/", "2", "0", "2", "5" >>,
      MDYText(2, 30, 2025),
      MDYText(3, 15, 2024),
      MDYText(4, 15, 2025),
      << "2", "0", "2", "5", "-", "0", "3" >>,
      << " " >> \o MDYText(3, 15, 2025) \o << " " >>,
      << "s", "o", "o", "n" >> }

AmountTexts ==
    { << "1", "0", "0" >>,
      << "$", "1", ",", "0", "0", "0" >>,
      << "-", "5" >>,
      << "1", "0", ".", "5" >>,
      << "0" >>,
      << "1", "2", "a", "b", "c" >>,
      << "a", "b", "c" >> }

StageTexts ==
    { << "FUNDED" >>, << "READY_FOR_FUNDING" >>, << "CONDITION_FULFILLMENT" >>,
      << "APPROVED" >>, << " ", "FUNDED", " " >>, << "funded" >>, << "DECLINED" >>,
      << "constructor" >> }

\* one row at each of the days 90, 89, -5 and -6 before the close
BoundaryRows ==
    << Row(ToISOString([day |-> MarchClose.day - 89, ms |-> 0]), MDYText(3, 15, 2025),
           << "1", "0", "0" >>, << "FUNDED" >>),
       Row(ToISOString([day |-> MarchClose.day - 89, ms |-> MsPerDay - 1]),
           MDYText(3, 15, 2025), << "1", "0", "0" >>, << "FUNDED" >>),
       Row(ToISOString([day |-> MarchClose.day + 6, ms |-> 0]), MDYText(3, 15, 2025),
           << "1", "0", "0" >>, << "FUNDED" >>),
       Row(ToISOString([day |-> MarchClose.day + 6, ms |-> MsPerDay - 1]),
           MDYText(3, 15, 2025), << "1", "0", "0" >>, << "FUNDED" >>) >>

\* rows with a missing field
BlankRows ==
    { << Row(<< >>, MDYText(3, 15, 2025), << "1" >>, << "FUNDED" >>) >>,
      << Row(ToISOString(MarchClose), << >>, << "1" >>, << "FUNDED" >>) >>,
      << Row(ToISOString(MarchClose), MDYText(3, 15, 2025), << >>, << "FUNDED" >>) >>,
      << Row(ToISOString(MarchClose), MDYText(3, 15, 2025), << "1" >>, << >>) >> }

\* rows that fail for different reasons among rows of a closed and of an open
\* month, one of them in a stage without weight
MixedRows ==
    << Row(ToISOString(MarchClose), MDYText(3, 15, 2025), << "1", "0", "0" >>,
           << "FUNDED" >>),
       Row(<< "n", "o", "w" >>, MDYText(3, 15, 2025), << "1", "0", "0" >>, << "FUNDED" >>),
       Row(ToISOString([day |-> MarchClose.day + 29, ms |-> Noon]), MDYText(4, 15, 2025),
           << "5", "0" >>, << "READY_FOR_FUNDING" >>),
       Row(ToISOString(MarchClose), MDYText(3, 15, 2025), << "a", "b", "c" >>,
           << "FUNDED" >>),
       Row(ToISOString(MarchClose), MDYText(3, 15, 2024), << "1", "0", "0" >>,
           << "FUNDED" >>),
       Row(ToISOString([day |-> MarchClose.day - 10, ms |-> Noon]), MDYText(3, 20, 2025),
           << "7", "0" >>, << "DECLINED" >>) >>

ParseInputs ==
    { << Row(snap, date, amount, stage) >> :
          snap \in SnapshotTexts, date \in DateTexts, amount \in AmountTexts,
          stage \in StageTexts }
    \cup BlankRows \cup { BoundaryRows, MixedRows }

InitParse == Constructed(Clock)

ParseLoad == loads = 0 /\ \E rows \in ParseInputs : LoadData(rows)

NextParse == ParseLoad

SpecParse == InitParse /\ [][NextParse]_vars

-----------------------------------------------------------------------------
(* Specification SpecBacktest: the page analyses a CSV, then another one   *)

MaxRuns == 2

\* new Date() while the page is in use: 2025-07-15T12:00:00.000Z
BacktestClock == At(2025, 7, 15, Noon)

Months == << 202501, 202502, 202503, 202504, 202505, 202506 >>

\* a month whose pipeline grows into its close, and one whose pipeline shrinks
Growing(monthKey) ==
    << Deal(monthKey, 7, 100, "FUNDED"), Deal(monthKey, 1, 150, "FUNDED"),
       Deal(monthKey, 0, 180, "FUNDED") >>

Shrinking(monthKey) ==
    << Deal(monthKey, 7, 200, "FUNDED"), Deal(monthKey, 1, 150, "FUNDED"),
       Deal(monthKey, 0, 120, "FUNDED") >>

MonthRowsOf(monthKey, variant) ==
    CASE variant = "growing" -> Growing(monthKey)
      [] variant = "shrinking" -> Shrinking(monthKey)
      [] OTHER -> << >>

RECURSIVE Csv(_, _)
\* the rows of the CSV in which month Months[k] has the variant choice[k]
Csv(choice, k) ==
    IF k > Len(Months) THEN << >>
    ELSE MonthRowsOf(Months[k], choice[k]) \o Csv(choice, k + 1)

\* the CSVs: every month growing or shrinking, at most one month absent
Choices ==
    { choice \in [DOMAIN Months -> { "absent", "growing", "shrinking" }] :
          Cardinality({ k \in DOMAIN Months : choice[k] = "absent" }) <= 1 }

\* the second CSV is the first with the rows of one month altered
AltersOneMonth(before, after) ==
    Cardinality({ k \in DOMAIN Months : before[k] # after[k] }) = 1

\* what runAnalysis of the page computes from a CSV: a new analyzer loads it
\* and, when it has data, a new BacktestAnalyzer over its trajectories and
\* closing values replaces the backtest results the page shows
Analysed(csvData, now, shown) ==
    Let(loadData(FreshAnalyzer, csvData, now), LAMBDA newAnalyzer :
        [analyzer |-> newAnalyzer,
         historical |-> BacktestHistoricalMonths(newAnalyzer.aggregatedDataByMonth,
                                                 newAnalyzer.actualClosingValues, now),
         backtestResults |->
             IF hasData(newAnalyzer)
             THEN getBacktestResults(newAnalyzer.aggregatedDataByMonth,
                                     newAnalyzer.actualClosingValues, now)
             ELSE shown])

\* the page is given the CSV of `choice`
RunAnalysis(choice) ==
    \E run \in { Analysed(Csv(choice, 1), today, bt.results) } :
        /\ rawData' = Csv(choice, 1)
        /\ mapped' = MapRows(Csv(choice, 1))
        /\ Becomes(run.analyzer)
        /\ loads' = 1
        /\ lastCall' = "getBacktestResults"
        /\ outcome' = "returned"
        /\ result' = run.backtestResults
        /\ bt' = [runs |-> bt.runs + 1,
                  choice |-> choice,
                  historical |-> run.historical,
                  results |-> run.backtestResults,
                  baseChoice |-> bt.choice,
                  baseResults |-> bt.results]
        /\ UNCHANGED today

InitBacktest == Constructed(BacktestClock)

Analyse ==
    /\ bt.runs < MaxRuns
    /\ \E choice \in Choices :
           /\ bt.runs > 0 => AltersOneMonth(bt.choice, choice)
           /\ RunAnalysis(choice)

NextBacktest == Analyse

SpecBacktest == InitBacktest /\ [][NextBacktest]_vars

-----------------------------------------------------------------------------
(* Properties of the parser, under SpecParse                                *)

\* "YYYY-MM-DD"
IsISODate(s) ==
    /\ Len(s) = 10
    /\ SymAt(s, 5, "-")
    /\ SymAt(s, 8, "-")
    /\ \A j \in {1, 2, 3, 4, 6, 7, 9, 10} : IsDigit(s[j])

\* the row with its ISO closing date rewritten as MM/DD/YYYY
AsMDY(row) ==
    [row EXCEPT !.date = SubSeq(Trim(row.date), 6, 7) \o << "/" >>
                         \o SubSeq(Trim(row.date), 9, 10) \o << "/" >>
                         \o SubSeq(Trim(row.date), 1, 4)]

\* C7: a row whose closing date is written YYYY-MM-DD, and which is an
\* observation when the date is written MM/DD/YYYY, is an observation with
\* the same closing month and the same daysBeforeClose.
C7_ISODateSameAsMDY ==
    \A i \in DOMAIN rawData :
        (/\ rawData[i].date # << >>
         /\ IsISODate(Trim(rawData[i].date))
         /\ ProcessRow(AsMDY(rawData[i])) # Null)
        => /\ mapped[i] # Null
           /\ mapped[i].closingMonth = ProcessRow(AsMDY(rawData[i])).closingMonth
           /\ mapped[i].daysBeforeClose = ProcessRow(AsMDY(rawData[i])).daysBeforeClose

\* a row every field of which is present and readable and whose closing date
\* is in 2025: only its distance to the close decides whether it is kept
OtherwiseValid(row) ==
    /\ row.snapShotTime # << >> /\ row.date # << >>
    /\ row.totalAmount # << >> /\ row.stage # << >>
    /\ ~IsInvalidDate(DateParse(Trim(row.snapShotTime)))
    /\ ~IsInvalidDate(ClosingMonthDate(Trim(row.date)))
    /\ getUTCFullYear(ClosingMonthDate(Trim(row.date))) = 2025
    /\ ~IsNaN(ParseFloat(StripCommaDollar(row.totalAmount)))

\* 23:59:59.999 UTC of the last day of the month of t
EndOfMonth(t) ==
    [day |-> DaysFromCivil(CivilFromDays(t.day).y, CivilFromDays(t.day).m,
                           DaysInMonth(CivilFromDays(t.day).y, CivilFromDays(t.day).m)),
     ms |-> MsPerDay - 1]

\* ceil((a - b) / 1 day): the whole days between the two dates, and one more
\* when a is later in its day than b in its own
WholeDaysUp(a, b) == (a.day - b.day) + (IF a.ms > b.ms THEN 1 ELSE 0)

DaysBeforeCloseOf(row) ==
    WholeDaysUp(EndOfMonth(ClosingMonthDate(Trim(row.date))),
                DateParse(Trim(row.snapShotTime)))

\* C8: an otherwise valid row is kept iff its daysBeforeClose, the ceiling of
\* the days from the snapshot to 23:59:59.999 UTC of the closing month's last
\* day, is in -5..89, and the observation records that number.
C8_KeptIffInRange ==
    \A i \in DOMAIN rawData :
        OtherwiseValid(rawData[i])
        => /\ mapped[i] # Null <=> (/\ DaysBeforeCloseOf(rawData[i]) >= -5
                                    /\ DaysBeforeCloseOf(rawData[i]) <= 89)
           /\ mapped[i] # Null
              => mapped[i].daysBeforeClose = DaysBeforeCloseOf(rawData[i])

\* one CSV with a row at each of 90, 89, -5 and -6 days: the second and the
\* third are the observations
C8_BoundaryRowsLoaded ==
    /\ lastCall = "loadData"
    /\ Len(rawData) = 4
    /\ \A i \in 1..4 : OtherwiseValid(rawData[i])
    /\ << DaysBeforeCloseOf(rawData[1]), DaysBeforeCloseOf(rawData[2]),
          DaysBeforeCloseOf(rawData[3]), DaysBeforeCloseOf(rawData[4]) >>
       = << 90, 89, -5, -6 >>
    /\ mapped[1] = Null /\ mapped[2] # Null /\ mapped[3] # Null /\ mapped[4] = Null
    /\ Len(allData) = 2

\* the weight of a stage as the weighting rule states it
WeightOfStage(stage) ==
    IF stage = << "FUNDED" >> THEN Num(1)
    ELSE IF stage = << "READY_FOR_FUNDING" >> THEN Rat(95, 100)
    ELSE IF stage = << "CONDITION_FULFILLMENT" >> THEN Rat(75, 100)
    ELSE IF stage = << "APPROVED" >> THEN Rat(60, 100)
    ELSE Num(0)

\* C9: every observation has weightedAmount = amount x weight(stage), the
\* weight being 1, 0.95, 0.75 or 0.60 for the four listed stages and 0 for
\* every other stage.
C9_WeightedAmountIsAmountTimesWeight ==
    \A i \in DOMAIN allData :
        allData[i].weightedAmount = RMul(allData[i].amount, WeightOfStage(allData[i].stage))

\* C10: every observation has an amount >= 0.
C10_AmountNonNegative ==
    \A i \in DOMAIN allData : RGe(allData[i].amount, Num(0))

-----------------------------------------------------------------------------
(* Properties of the backtest, under SpecBacktest                           *)

ResultsFor(results, monthKey) == SelectSeq(results, LAMBDA r : r.month = monthKey)

\* the two CSVs have the same rows for Months[k] and for every earlier month
SameUpTo(k) == \A j \in 1..k : bt.choice[j] = bt.baseChoice[j]

C3_EligibleMonthsEvaluated ==
    bt.runs > 0
    => \A k \in 1..Len(bt.historical) :
           (k - 1 >= 3 /\ bt.historical[k] >= startMonth)
           => ResultsFor(bt.results, bt.historical[k]) # << >>

-----------------------------------------------------------------------------
(* More properties of the parser, under SpecParse                           *)

\* a row that fails a step of the parser: a missing field, an unreadable
\* snapshot or closing date, a closing year other than 2025, a non-numeric
\* amount, or a number of days before the close outside -5..89
Failing(row) ==
    \/ ~OtherwiseValid(row)
    \/ DaysBeforeCloseOf(row) < -5
    \/ DaysBeforeCloseOf(row) > 89

\* C11: the load returns, a failing row gives no observation, and the
\* observations are those of the input without its failing rows, one for
\* each remaining row and in their order.
C11_FailingRowsAreDropped ==
    lastCall = "loadData"
    => /\ outcome = "returned"
       /\ \A i \in DOMAIN rawData : Failing(rawData[i]) => mapped[i] = Null
       /\ allData = processRawData(SelectSeq(rawData, LAMBDA row : ~Failing(row)))
       /\ Len(allData) = Cardinality({ i \in DOMAIN rawData : ~Failing(rawData[i]) })

\* failing rows between rows that are observations
C11_MixedRowsLoaded ==
    /\ lastCall = "loadData"
    /\ \E i, j, k \in DOMAIN rawData :
           /\ i < j /\ j < k
           /\ ~Failing(rawData[i]) /\ Failing(rawData[j]) /\ ~Failing(rawData[k])
    /\ Len(allData) = 3
    /\ Len(rawData) = 6

\* the closing date of a month: its last calendar day, as categorizeMonths
\* reads it (the first instant of that day, UTC)
ClosingDateOf(monthKey) ==
    At(KeyYear(monthKey), KeyMonth(monthKey), DaysInMonth(KeyYear(monthKey), KeyMonth(monthKey)), 0)

HasPositiveClose(monthKey) ==
    /\ monthKey \in DOMAIN actualClosingValues
    /\ RGt(actualClosingValues[monthKey].weighted, Num(0))

Occurrences(list, x) == Cardinality({ i \in DOMAIN list : list[i] = x })

\* C12: every month of the aggregated series is once in exactly one of the
\* two lists, the lists hold no other key, and a month is historical iff its
\* closing date is before the current time and it has a closing value of
\* positive weighted value.
C12_ClassificationIsPartition ==
    /\ Range(allHistoricalMonths) \cup Range(currentMonths) = DOMAIN aggregatedDataByMonth
    /\ \A k \in DOMAIN aggregatedDataByMonth :
           /\ Occurrences(allHistoricalMonths, k) + Occurrences(currentMonths, k) = 1
           /\ k \in Range(allHistoricalMonths)
                  <=> (DateLt(ClosingDateOf(k), today) /\ HasPositiveClose(k))

\* a closed month with a closing value beside an open month that has one too
C12_BothClassesLoaded ==
    /\ lastCall = "loadData"
    /\ allHistoricalMonths = << 202503 >>
    /\ currentMonths = << 202504 >>
    /\ HasPositiveClose(202504)
    /\ ~DateLt(ClosingDateOf(202504), today)

-----------------------------------------------------------------------------
(* Specification SpecCurves: one CSV is loaded, then the growth curve of a  *)
(* list of training months is computed and the forecast is read             *)

CurvesClock == At(2025, 5, 20, 64800000)

CurveMonths == { 202501, 202502, 202503, 202504 }

\* one deal seen at millisecond ms of the day `days` days before the close
DealAt(monthKey, days, ms, amount, stage) ==
    Row(ToISOString(SnapshotAt(monthKey, days, ms)),
        MDYText(KeyMonth(monthKey), 15, KeyYear(monthKey)),
        NumText(amount), << stage >>)

\* a month seen on consecutive days, growing by a tenth a day
JanDaily ==
    << Deal(202501, 16, 1000, "FUNDED"), Deal(202501, 3, 1000, "FUNDED"),
       Deal(202501, 2, 1100, "FUNDED"), Deal(202501, 1, 1210, "FUNDED"),
       Deal(202501, 0, 1331, "FUNDED") >>

\* a month whose first snapshot has no weighted value
JanFromZero ==
    << Deal(202501, 2, 50, "DECLINED"), Deal(202501, 1, 100, "FUNDED"),
       Deal(202501, 0, 110, "FUNDED") >>

\* a pair three days apart that ends after the close
FebAcrossClose ==
    << Deal(202502, 14, 900, "FUNDED"), Deal(202502, 2, 1000, "FUNDED"),
       Deal(202502, -1, 729, "FUNDED") >>

\* pairs two days apart
MarEveryOtherDay ==
    << Deal(202503, 17, 500, "FUNDED"), Deal(202503, 5, 100, "FUNDED"),
       Deal(202503, 3, 121, "FUNDED"), Deal(202503, 1, 100, "FUNDED") >>

\* a last day that grows by exactly one half, and by a little less
AprByHalf ==
    << Deal(202504, 15, 400, "FUNDED"), Deal(202504, 1, 100, "FUNDED"),
       Deal(202504, 0, 150, "FUNDED") >>

AprByLessThanHalf ==
    << Deal(202504, 20, 400, "FUNDED"), Deal(202504, 1, 100, "FUNDED"),
       Deal(202504, 0, 149, "FUNDED") >>

\* a pair four days apart, then a last day that loses exactly one half
AprWithGap ==
    << Deal(202504, 13, 400, "FUNDED"), Deal(202504, 5, 200, "FUNDED"),
       Deal(202504, 1, 210, "FUNDED"), Deal(202504, 0, 105, "FUNDED") >>

\* months that stay open because they close without a positive weighted value
AprClosedBelowZero ==
    << Deal(202504, 16, 400, "FUNDED"),
       Row(ToISOString(SnapshotAt(202504, 0, Noon)), MDYText(4, 15, 2025),
           << "-", "5", "0" >>, << "FUNDED" >>) >>

AprSeenAfterClose ==
    << Deal(202504, 1, 100, "DECLINED"), Deal(202504, -2, 90, "DECLINED") >>

\* a month seen as long before its close as after it, and a closed month
\* seen long before its close only
FebAroundClose ==
    << Deal(202502, 2, 500, "FUNDED"), Deal(202502, -2, 400, "FUNDED") >>

MarSeenEarly == << Deal(202503, 40, 300, "FUNDED"), Deal(202503, 6, 350, "FUNDED") >>

\* closed months that move on their last day only
LastDayOnly(monthKey, far, early, close) ==
    << Deal(monthKey, far, early, "FUNDED"), Deal(monthKey, 1, 1000, "FUNDED"),
       Deal(monthKey, 0, close, "FUNDED") >>

ThreeClosedMonths ==
    LastDayOnly(202501, 16, 800, 1200) \o LastDayOnly(202502, 14, 700, 1100)
    \o LastDayOnly(202503, 17, 600, 900)

FourClosedMonths == ThreeClosedMonths \o LastDayOnly(202504, 15, 500, 1300)

\* closed months that lose two fifths on each of their last two days, and an
\* open month two days before its close
LosingTwoFifths(monthKey) ==
    << Deal(monthKey, 2, 1000, "FUNDED"), Deal(monthKey, 1, 600, "FUNDED"),
       Deal(monthKey, 0, 360, "FUNDED") >>

DecliningMonths ==
    LosingTwoFifths(202501) \o LosingTwoFifths(202502) \o LosingTwoFifths(202503)

MayTwoDaysOut == << Deal(202505, 2, 1000, "FUNDED") >>

\* an open month seen 90 and 89 days before its close, and a closed month
\* seen 5 and 6 days after it
MayAtTheEdge == << Deal(202505, 90, 400, "FUNDED"), Deal(202505, 89, 500, "FUNDED") >>

AprAfterTheEdge == << Deal(202504, -5, 300, "FUNDED"), Deal(202504, -6, 200, "FUNDED") >>

\* closed months seen on the day after their last day only
JanSeenAtCloseOnly == << Deal(202501, 0, 600, "FUNDED") >>

MarSeenAtCloseOnly == << Deal(202503, 0, 700, "FUNDED") >>

\* a closed month whose highest raw value before the end of the month is in
\* a stage without weight
FebPeakDeclined ==
    << Deal(202502, 10, 5000, "DECLINED"), Deal(202502, 1, 1000, "FUNDED"),
       Deal(202502, 0, 6000, "FUNDED") >>

\* a closed month seen once, four days before its close
AprFourDaysOut == << Deal(202504, 4, 1000, "FUNDED") >>

\* closed months that do not move near their close
Flat(monthKey, far, early, close) ==
    << Deal(monthKey, far, early, "FUNDED"), Deal(monthKey, 1, close, "FUNDED"),
       Deal(monthKey, 0, close, "FUNDED") >>

FourFlatMonths ==
    Flat(202501, 16, 500, 1200) \o Flat(202502, 14, 700, 1100)
    \o Flat(202503, 17, 600, 900) \o Flat(202504, 15, 800, 1300)

\* the open month, far from its close and near it
MayFar == << Deal(202505, 20, 900, "FUNDED"), Deal(202505, 16, 1000, "FUNDED") >>

MayNear == << Deal(202505, 8, 5000, "FUNDED"), Deal(202505, 5, 6000, "FUNDED") >>

\* several deals per snapshot and several snapshots on the same day
EarlyMorning == 8 * 60 * 60 * 1000

SeveralSnapshotsADay ==
    << DealAt(202504, 2, EarlyMorning, 500, "FUNDED"),
       DealAt(202504, 2, EarlyMorning, 300, "APPROVED"),
       DealAt(202505, 33, EarlyMorning, 40, "FUNDED"),
       DealAt(202504, 2, Noon, 1000, "FUNDED"),
       DealAt(202504, 2, Noon, 100, "APPROVED"),
       DealAt(202504, 1, Noon, 1060, "FUNDED"),
       DealAt(202504, 1, EarlyMorning, 70, "FUNDED"),
       DealAt(202504, 1, EarlyMorning, 30, "READY_FOR_FUNDING"),
       DealAt(202504, 0, Noon, 1060, "FUNDED"),
       DealAt(202504, 0, 0, 10, "FUNDED") >>

CurveDatasets ==
    { JanDaily,
      JanDaily \o FebAcrossClose,
      JanDaily \o FebAcrossClose \o MarEveryOtherDay,
      JanDaily \o FebAcrossClose \o MarEveryOtherDay \o AprByLessThanHalf,
      JanDaily \o FebAcrossClose \o AprByHalf,
      JanFromZero \o AprWithGap,
      JanDaily \o AprSeenAfterClose,
      JanDaily \o FebAroundClose \o MarSeenEarly,
      ThreeClosedMonths \o AprClosedBelowZero \o MayNear,
      FourClosedMonths,
      ThreeClosedMonths \o AprFourDaysOut,
      JanSeenAtCloseOnly \o FebPeakDeclined \o MarSeenAtCloseOnly,
      DecliningMonths \o MayTwoDaysOut,
      ThreeClosedMonths \o AprAfterTheEdge \o MayAtTheEdge,
      FourFlatMonths \o MayFar,
      ThreeClosedMonths \o MayNear,
      MayNear,
      SeveralSnapshotsADay }

\* a trajectory whose latest point comes first and has no weighted value
UnweightedTrajectory ==
    << [snapshotDate |-> At(2025, 4, 28, Noon), daysBeforeClose |-> 2,
        weightedAmount |-> Num(0), rawAmount |-> Num(40)],
       [snapshotDate |-> At(2025, 4, 26, Noon), daysBeforeClose |-> 4,
        weightedAmount |-> Num(90), rawAmount |-> Num(90)] >>

\* a single point two days before the close
TwoDaysTrajectory ==
    << [snapshotDate |-> At(2025, 4, 28, Noon), daysBeforeClose |-> 2,
        weightedAmount |-> Num(210), rawAmount |-> Num(210)] >>

\* a trajectory whose latest point comes first
LatestFirstTrajectory ==
    << [snapshotDate |-> At(2025, 4, 29, Noon), daysBeforeClose |-> 1,
        weightedAmount |-> Num(100), rawAmount |-> Num(100)],
       [snapshotDate |-> At(2025, 4, 27, Noon), daysBeforeClose |-> 3,
        weightedAmount |-> Num(80), rawAmount |-> Num(80)] >>

\* the goals, and one far below the pipeline
CurveGoals == Goals \cup { Num(10) }

\* the trajectories of the loaded months and the ones above
CurveTrajectories ==
    Trajectories \cup { UnweightedTrajectory, TwoDaysTrajectory, LatestFirstTrajectory }

\* the lists of at most `n` different months of S, in every order
RECURSIVE Orderings(_, _)
Orderings(S, n) ==
    IF n = 0 THEN { << >> }
    ELSE { << >> } \cup { << m >> \o rest : m \in S, rest \in Orderings(S, n - 1) }

WithoutRepeats(list) == \A i, j \in DOMAIN list : list[i] = list[j] => i = j

MaxTrainingMonths == 3

TrainingLists == { list \in Orderings(CurveMonths, MaxTrainingMonths) : WithoutRepeats(list) }

\* calculateGrowthRates(months) of the loaded analyzer on a list of training
\* months; the list of pushes is the local dailyRates
CalculateGrowthRates(months) ==
    \E curves \in { calculateGrowthRates(aggregatedDataByMonth, months) } :
        Returns("calculateGrowthRates",
                [months |-> months,
                 dailyRates |-> AllRates(aggregatedDataByMonth, months, 1),
                 median |-> curves.median,
                 smoothed |-> curves.smoothed])

InitCurves == Constructed(CurvesClock)

CurvesLoad == loads = 0 /\ \E rows \in CurveDatasets : LoadData(rows)

\* the curve is computed on the analyzer as it was loaded
CurvesTrain ==
    /\ lastCall = "loadData"
    /\ allData # << >>
    /\ \E months \in TrainingLists : CalculateGrowthRates(months)

\* new BacktestAnalyzer(analyzer.getAggregatedDataByMonth(),
\*     analyzer.getActualClosingValues()).getBacktestResults()
GetBacktestResults ==
    Returns("getBacktestResults",
            getBacktestResults(aggregatedDataByMonth, actualClosingValues, today))

\* the backtest is run on the analyzer as it was loaded
CurvesBacktest ==
    /\ lastCall = "loadData"
    /\ allData # << >>
    /\ GetBacktestResults

CurvesGoalSeek ==
    \E originalTrajectory \in CurveTrajectories, goalValue \in CurveGoals :
        /\ GoalSeekInput(originalTrajectory, goalValue)
        /\ GenerateGoalSeekTrajectory(originalTrajectory, goalValue)

NextCurves ==
    \/ CurvesLoad
    \/ CurvesTrain
    \/ CurvesBacktest
    \/ GetForecast
    \/ GetAppendixData
    \/ CurvesGoalSeek

SpecCurves == InitCurves /\ [][NextCurves]_vars

-----------------------------------------------------------------------------
(* Properties of the growth curve and of the forecast, under SpecCurves     *)

\* the growth values attributed to day d, in the order of their arrival
ValuesOfDay(pushes, d) ==
    Let(SelectSeq(pushes, LAMBDA p : p.day = d), LAMBDA ofDay :
        [j \in 1..Len(ofDay) |-> ofDay[j].growth])

\* C13: the median and the smoothed curve computed for a list of training
\* months are those computed for every other ordering of the same months.
C13_CurvesIgnoreMonthOrder ==
    lastCall = "calculateGrowthRates"
    => \A other \in TrainingLists :
           Range(other) = Range(result.months)
           => calculateGrowthRates(aggregatedDataByMonth, other)
                  = [median |-> result.median, smoothed |-> result.smoothed]

\* three training months give a day three different values that do not
\* arrive in ascending order
C13_ValuesArriveUnsorted ==
    /\ lastCall = "calculateGrowthRates"
    /\ Len(result.months) = 3
    /\ \E d \in 0..LastCurveDay :
           /\ Len(ValuesOfDay(result.dailyRates, d)) = 3
           /\ RGt(ValuesOfDay(result.dailyRates, d)[1], ValuesOfDay(result.dailyRates, d)[2])
           /\ RGt(ValuesOfDay(result.dailyRates, d)[2], ValuesOfDay(result.dailyRates, d)[3])

\* the consecutive pairs of the trajectories of the training months:
\* << position in the list, position of `previous` in the trajectory >>
PairsOf(months) ==
    UNION { { << k, i >> : i \in 1..(Len(aggregatedDataByMonth[months[k]]) - 1) } :
                k \in { k \in DOMAIN months : months[k] \in DOMAIN aggregatedDataByMonth } }

PreviousOf(months, pair) == aggregatedDataByMonth[months[pair[1]]][pair[2]]

CurrentOf(months, pair) == aggregatedDataByMonth[months[pair[1]]][pair[2] + 1]

DaysDiffOf(months, pair) ==
    PreviousOf(months, pair).daysBeforeClose - CurrentOf(months, pair).daysBeforeClose

\* (current / previous)^(1 / daysDiff) - 1
GrowthOf(months, pair) ==
    RSub(PowInv(RDiv(CurrentOf(months, pair).weightedPipeline,
                     PreviousOf(months, pair).weightedPipeline),
                DaysDiffOf(months, pair)),
         Num(1))

Accepted(months, pair) ==
    /\ 1 <= DaysDiffOf(months, pair)
    /\ DaysDiffOf(months, pair) <= 3
    /\ RGt(PreviousOf(months, pair).weightedPipeline, Num(0))
    /\ RGt(GrowthOf(months, pair), Rat(-1, 2))
    /\ RLt(GrowthOf(months, pair), Rat(1, 2))

\* the accepted pair gives its growth to day d
GivesTo(months, pair, d) ==
    /\ Accepted(months, pair)
    /\ CurrentOf(months, pair).daysBeforeClose <= d
    /\ d < CurrentOf(months, pair).daysBeforeClose + DaysDiffOf(months, pair)
    /\ 0 <= d
    /\ d <= 89

\* C18: the values attributed to the days are those of the accepted pairs,
\* each pair giving its growth once to each day from current.daysBeforeClose
\* to the day before previous.daysBeforeClose that lies in 0..89: day by day
\* and value by value, the number of attributions is the number of pairs
\* that give this value to this day.
C18_AcceptedPairsFillTheirGap ==
    lastCall = "calculateGrowthRates"
    => /\ \A j \in DOMAIN result.dailyRates :
              /\ result.dailyRates[j].day \in 0..89
              /\ \E pair \in PairsOf(result.months) :
                     /\ GivesTo(result.months, pair, result.dailyRates[j].day)
                     /\ GrowthOf(result.months, pair) = result.dailyRates[j].growth
       /\ \A pair \in PairsOf(result.months) : \A d \in -5..89 :
              GivesTo(result.months, pair, d)
              => Cardinality({ j \in DOMAIN result.dailyRates :
                                   /\ result.dailyRates[j].day = d
                                   /\ result.dailyRates[j].growth
                                          = GrowthOf(result.months, pair) })
                     = Cardinality({ other \in PairsOf(result.months) :
                                         /\ GivesTo(result.months, other, d)
                                         /\ GrowthOf(result.months, other)
                                                = GrowthOf(result.months, pair) })

\* a pair three days apart that ends after the close is accepted, beside a
\* pair that grows by exactly one half and a pair more than three days apart
C18_PairsOfEachKind ==
    /\ lastCall = "calculateGrowthRates"
    /\ \E pair \in PairsOf(result.months) :
           /\ Accepted(result.months, pair)
           /\ DaysDiffOf(result.months, pair) = 3
           /\ CurrentOf(result.months, pair).daysBeforeClose < 0
    /\ \E pair \in PairsOf(result.months) :
           /\ DaysDiffOf(result.months, pair) = 1
           /\ GrowthOf(result.months, pair) = Rat(1, 2)
    /\ \E pair \in PairsOf(result.months) : DaysDiffOf(result.months, pair) > 3
    /\ Len(result.dailyRates) = 5

\* the k-th smallest of a list of values
KthSmallest(values, k) ==
    CHOOSE v \in Range(values) :
        /\ Cardinality({ j \in DOMAIN values : RLt(values[j], v) }) < k
        /\ k <= Cardinality({ j \in DOMAIN values : RLe(values[j], v) })

\* the middle value of an odd number of values, the mean of the two middle
\* values of an even number, 0 of none
MiddleOf(values) ==
    IF values = << >> THEN Num(0)
    ELSE IF Len(values) % 2 = 1 THEN KthSmallest(values, (Len(values) + 1) \div 2)
    ELSE RDiv(RAdd(KthSmallest(values, Len(values) \div 2),
                   KthSmallest(values, Len(values) \div 2 + 1)), Num(2))

\* C19: the median curve has 90 entries, the entry of day d at position d,
\* and its rate is the median of the values attributed to day d, 0 for none.
C19_MedianCurveHasNinetyMedians ==
    lastCall = "calculateGrowthRates"
    => /\ Len(result.median) = 90
       /\ \A d \in 0..89 :
              /\ result.median[d + 1].daysBefore = d
              /\ result.median[d + 1].rate = MiddleOf(ValuesOfDay(result.dailyRates, d))

\* days with three, two, one and no value, the two values being different
C19_OddAndEvenCounts ==
    /\ lastCall = "calculateGrowthRates"
    /\ \E d \in 0..89 : Len(ValuesOfDay(result.dailyRates, d)) = 3
    /\ \E d \in 0..89 :
           /\ Len(ValuesOfDay(result.dailyRates, d)) = 2
           /\ ValuesOfDay(result.dailyRates, d)[1] # ValuesOfDay(result.dailyRates, d)[2]
           /\ result.median[d + 1].rate # Num(0)
    /\ \E d \in 0..89 : Len(ValuesOfDay(result.dailyRates, d)) = 1
    /\ \E d \in 0..89 : Len(ValuesOfDay(result.dailyRates, d)) = 0

\* the days of the window of radius 2 around day i
WindowOf(i) == { j \in 0..89 : j >= i - 2 /\ j <= i + 2 }

RECURSIVE MedianSumOver(_)
MedianSumOver(days) ==
    IF days = {} THEN Num(0)
    ELSE Let(CHOOSE j \in days : TRUE, LAMBDA j :
             RAdd(result.median[j + 1].rate, MedianSumOver(days \ { j })))

\* C20: the smoothed rate of day i is the mean of the median rates of the
\* days max(0, i - 2)..min(89, i + 2): of 3 days at 0 and 89, of 4 days at 1
\* and 88, of 5 days elsewhere; and a median curve with the same rate r on
\* every day has the smoothed rate r on every day.
C20_SmoothedIsWindowMean ==
    lastCall = "calculateGrowthRates"
    => /\ Len(result.smoothed) = 90
       /\ \A i \in 0..89 :
              /\ result.smoothed[i + 1].daysBefore = i
              /\ result.smoothed[i + 1].rate
                     = RDiv(MedianSumOver(WindowOf(i)), Num(Cardinality(WindowOf(i))))
              /\ Cardinality(WindowOf(i))
                     = (IF i \in { 0, 89 } THEN 3 ELSE IF i \in { 1, 88 } THEN 4 ELSE 5)
       /\ (\A i \in 1..90 : result.median[i].rate = result.median[1].rate)
              => \A i \in 1..90 : result.smoothed[i].rate = result.median[1].rate

\* a median curve that is not zero on days 0 and 1, next to the clipped end
\* of the window, and whose smoothed rates differ from it
C20_CurveNextToTheEnd ==
    /\ lastCall = "calculateGrowthRates"
    /\ result.median[1].rate # Num(0)
    /\ result.median[2].rate # Num(0)
    /\ result.median[1].rate # result.median[2].rate
    /\ result.smoothed[1].rate # result.median[1].rate
    /\ result.smoothed[2].rate # result.smoothed[3].rate
    /\ result.median[5].rate # Num(0)
    /\ result.smoothed[7].rate # Num(0)

\* the point of a trajectory with the most recent snapshotDate
MostRecent(monthData) ==
    CHOOSE p \in Range(monthData) :
        \A q \in Range(monthData) : ~DateLt(p.snapshotDate, q.snapshotDate)

\* the product of (1 + smoothed rate of day d) over the days d < n
\* the product of (1 + curve[d]) over the days d in from..to
RECURSIVE ProductOver(_, _, _)
ProductOver(curve, from, to) ==
    IF from > to THEN Num(1)
    ELSE IF from = to THEN RAdd(Num(1), curve[from + 1].rate)
    ELSE RMul(ProductOver(curve, from, (from + to) \div 2),
              ProductOver(curve, (from + to) \div 2 + 1, to))

CompoundedThrough(n) == ProductOver(forecastGrowthRates, 0, n - 1)

\* C14: getForecast returns one result per current month; for a month whose
\* latest point is n <= 89 days before the close, the forecast is the latest
\* weighted value times the product of (1 + smoothed rate) over the days
\* 0..n-1 and the forecast trajectory has one point per day from n-1 down to
\* 0; for n <= 0 the forecast is the latest weighted value and no point is
\* projected.
C14_ForecastCompounds ==
    lastCall = "getForecast"
    => /\ Len(result) = Len(currentMonths)
       /\ \A k \in DOMAIN result :
              /\ result[k].month = currentMonths[k]
              /\ Let(MostRecent(aggregatedDataByMonth[currentMonths[k]]), LAMBDA latest :
                     latest.daysBeforeClose <= 89
                     => /\ result[k].forecast
                               = RMul(latest.weightedPipeline,
                                      CompoundedThrough(latest.daysBeforeClose))
                        /\ Len(result[k].forecastTrajectory) = Max2(latest.daysBeforeClose, 0)
                        /\ \A j \in DOMAIN result[k].forecastTrajectory :
                               result[k].forecastTrajectory[j].daysBeforeClose
                                   = latest.daysBeforeClose - j
                        /\ latest.daysBeforeClose <= 0
                               => /\ result[k].forecast = latest.weightedPipeline
                                  /\ result[k].forecastTrajectory = << >>)

\* a month forecast through days whose rates are not zero, beside a month
\* whose latest point is on the day of the close
C14_CompoundedAndClosedMonths ==
    /\ lastCall = "getForecast"
    /\ \E k \in DOMAIN result :
           /\ result[k].daysToClose = 5
           /\ Len(result[k].forecastTrajectory) = 5
           /\ RGt(result[k].forecast, result[k].currentWeightedValue)
           /\ RGt(result[k].currentWeightedValue, Num(0))
    /\ \E k \in DOMAIN result :
           /\ result[k].daysToClose = 0
           /\ result[k].forecast = Num(-50)
    /\ forecastGrowthRates[1].rate # forecastGrowthRates[3].rate

\* the checkpoints of the comparison
Checkpoints == { 85, 75, 60, 45, 30, 15 }

\* the trajectory has a point within 3 days of the checkpoint
HasPointNear(monthKey, checkpoint) ==
    \E i \in DOMAIN aggregatedDataByMonth[monthKey] :
        Abs(aggregatedDataByMonth[monthKey][i].daysBeforeClose - checkpoint) <= 3

\* the comparison of a historical month with the month of a forecast, Null
\* when it cannot be scored
CandidateOf(forecast, historicalMonth) ==
    ComparisonOf(aggregatedDataByMonth[forecast.month], historicalMonth,
                 aggregatedDataByMonth, actualClosingValues, forecast.forecast)

Analogs(forecast) ==
    { forecast.similarMonths[i].historical_month : i \in DOMAIN forecast.similarMonths }

\* C15: the analogs of a forecast month are at most 3, in ascending order of
\* score, each a different historical month of 2025-01 or later with a
\* checkpoint near which both trajectories have a point, none of them the
\* forecast month itself; and no historical month that can be scored and was
\* left out has a score below that of a returned one.
C15_ThreeBestAnalogs ==
    lastCall = "getForecast"
    => \A k \in DOMAIN result :
           /\ Len(result[k].similarMonths) <= 3
           /\ Cardinality(Analogs(result[k])) = Len(result[k].similarMonths)
           /\ result[k].month \notin Analogs(result[k])
           /\ \A i, j \in DOMAIN result[k].similarMonths :
                  i < j => RLe(result[k].similarMonths[i].score,
                               result[k].similarMonths[j].score)
           /\ \A h \in Analogs(result[k]) :
                  /\ h \in Range(allHistoricalMonths)
                  /\ h >= 202501
                  /\ \E c \in Checkpoints :
                         HasPointNear(h, c) /\ HasPointNear(result[k].month, c)
           /\ \A h \in Range(allHistoricalMonths) \ Analogs(result[k]) :
                  CandidateOf(result[k], h) # Null
                  => \A i \in DOMAIN result[k].similarMonths :
                         ~RLt(CandidateOf(result[k], h).score,
                              result[k].similarMonths[i].score)

\* four historical months can be scored: three are returned, the latest
\* month first, and the earliest one is left out with the highest score
C15_FourthCandidateLeftOut ==
    /\ lastCall = "getForecast"
    /\ \E k \in DOMAIN result :
           /\ Len(result[k].similarMonths) = 3
           /\ result[k].similarMonths[1].historical_month = 202504
           /\ result[k].similarMonths[2].historical_month = 202502
           /\ result[k].similarMonths[3].historical_month = 202503
           /\ RLt(result[k].similarMonths[1].score, result[k].similarMonths[2].score)
           /\ RLt(result[k].similarMonths[2].score, result[k].similarMonths[3].score)
           /\ CandidateOf(result[k], 202501) # Null
           /\ RGt(CandidateOf(result[k], 202501).score, result[k].similarMonths[3].score)

\* the observations of a closing month, by their position in allData
ObservationsOf(monthKey) ==
    { i \in DOMAIN allData : MonthKeyOf(allData[i].closingMonth) = monthKey }

\* the UTC days on which the month has observations
DaysSeen(monthKey) == { allData[i].snapshotDate.day : i \in ObservationsOf(monthKey) }

\* the observations of the month at the latest snapshot instant of the day
LatestOfDay(monthKey, day) ==
    { i \in ObservationsOf(monthKey) :
          /\ allData[i].snapshotDate.day = day
          /\ \A j \in ObservationsOf(monthKey) :
                 allData[j].snapshotDate.day = day
                 => allData[j].snapshotDate.ms <= allData[i].snapshotDate.ms }

RECURSIVE AmountOver(_)
AmountOver(observations) ==
    IF observations = {} THEN Num(0)
    ELSE Let(CHOOSE i \in observations : TRUE, LAMBDA i :
             RAdd(allData[i].amount, AmountOver(observations \ { i })))

RECURSIVE WeightedAmountOver(_)
WeightedAmountOver(observations) ==
    IF observations = {} THEN Num(0)
    ELSE Let(CHOOSE i \in observations : TRUE, LAMBDA i :
             RAdd(allData[i].weightedAmount, WeightedAmountOver(observations \ { i })))

\* C17: after the first load, the trajectory of a closing month has one
\* point per UTC day on which the month has observations, and the point of a
\* day holds the sums of amount and weightedAmount over the observations of
\* the month taken at the latest snapshot instant of that day.
C17_LastSnapshotOfDayWins ==
    (loads = 1 /\ allData # << >>)
    => /\ DOMAIN aggregatedDataByMonth
              = { MonthKeyOf(allData[i].closingMonth) : i \in DOMAIN allData }
       /\ \A monthKey \in DOMAIN aggregatedDataByMonth :
              /\ Len(aggregatedDataByMonth[monthKey]) = Cardinality(DaysSeen(monthKey))
              /\ \A day \in DaysSeen(monthKey) :
                     \E k \in DOMAIN aggregatedDataByMonth[monthKey] :
                         Let(aggregatedDataByMonth[monthKey][k], LAMBDA point :
                             /\ point.snapshotDate.day = day
                             /\ \A i \in LatestOfDay(monthKey, day) :
                                    allData[i].snapshotDate = point.snapshotDate
                             /\ point.rawPipeline = AmountOver(LatestOfDay(monthKey, day))
                             /\ point.weightedPipeline
                                    = WeightedAmountOver(LatestOfDay(monthKey, day)))

\* a day with two snapshots of a month, each of two deals, the earlier one
\* first in the file and shared with a deal of another month
C17_TwoSnapshotsOnOneDay ==
    /\ loads = 1
    /\ \E monthKey \in DOMAIN aggregatedDataByMonth : \E day \in DaysSeen(monthKey) :
           /\ Cardinality(LatestOfDay(monthKey, day)) = 2
           /\ Cardinality({ i \in ObservationsOf(monthKey) :
                                allData[i].snapshotDate.day = day }) = 4
           /\ \E i \in DOMAIN allData :
                  /\ i \notin ObservationsOf(monthKey)
                  /\ allData[i].snapshotDate.day = day
           /\ \E i \in ObservationsOf(monthKey) : \E j \in LatestOfDay(monthKey, day) :
                  /\ i < j
                  /\ allData[i].snapshotDate.day = day
                  /\ allData[i].snapshotDate.ms < allData[j].snapshotDate.ms
           /\ AmountOver(LatestOfDay(monthKey, day)) = Num(1100)
           /\ WeightedAmountOver(LatestOfDay(monthKey, day)) = Num(1060)

-----------------------------------------------------------------------------
(* Properties of the goal-seek trajectory, under SpecCurves                 *)

\* the point of a trajectory with the most recent snapshotDate
MostRecentPoint(trajectory) ==
    CHOOSE p \in Range(trajectory) :
        \A q \in Range(trajectory) : ~DateLt(p.snapshotDate, q.snapshotDate)

\* C16: the goal-seek trajectory of an empty trajectory is empty; it is the
\* input when the latest point has weightedAmount <= 0 or daysBeforeClose
\* <= 0; otherwise it is the input, point by point, followed by daysToClose
\* new points at daysBeforeClose = daysToClose - 1 down to 0.
C16_GoalSeekShape ==
    lastCall = "generateGoalSeekTrajectory"
    => IF result.originalTrajectory = << >> THEN result.trajectory = << >>
       ELSE Let(MostRecentPoint(result.originalTrajectory), LAMBDA latest :
                IF RLe(latest.weightedAmount, Num(0)) \/ latest.daysBeforeClose <= 0
                THEN result.trajectory = result.originalTrajectory
                ELSE /\ Len(result.trajectory)
                            = Len(result.originalTrajectory) + latest.daysBeforeClose
                     /\ SubSeq(result.trajectory, 1, Len(result.originalTrajectory))
                            = result.originalTrajectory
                     /\ \A j \in 1..latest.daysBeforeClose :
                            result.trajectory[Len(result.originalTrajectory) + j].daysBeforeClose
                                = latest.daysBeforeClose - j)

\* two days are projected after the only point of a trajectory
C16_TwoDaysProjected ==
    /\ lastCall = "generateGoalSeekTrajectory"
    /\ Len(result.originalTrajectory) = 1
    /\ result.originalTrajectory[1].daysBeforeClose = 2
    /\ Len(result.trajectory) = 3
    /\ result.trajectory[2].daysBeforeClose = 1
    /\ result.trajectory[3].daysBeforeClose = 0
    /\ Len(forecastGrowthRates) = 90

-----------------------------------------------------------------------------
(* Properties of the closing values and of the peaks, under SpecCurves      *)

\* the trajectory of the month has a point within 5 days of the close
SeenNearClose(monthKey) ==
    \E i \in DOMAIN aggregatedDataByMonth[monthKey] :
        Abs(aggregatedDataByMonth[monthKey][i].daysBeforeClose) <= 5

\* the first point of the trajectory among those nearest to the close
NearestToClose(monthKey) ==
    Let(aggregatedDataByMonth[monthKey], LAMBDA trajectory :
        trajectory[CHOOSE i \in DOMAIN trajectory :
                       \A j \in DOMAIN trajectory :
                           /\ Abs(trajectory[i].daysBeforeClose)
                                  <= Abs(trajectory[j].daysBeforeClose)
                           /\ j < i => Abs(trajectory[i].daysBeforeClose)
                                           < Abs(trajectory[j].daysBeforeClose)])

\* C21: a month has an actual closing value iff its trajectory has a point
\* with |daysBeforeClose| <= 5; the value is that of the point nearest to the
\* close, the first one on a tie; a month without such a point is not
\* historical.
C21_ClosingValueIsNearestPoint ==
    /\ DOMAIN actualClosingValues
           = { monthKey \in DOMAIN aggregatedDataByMonth : SeenNearClose(monthKey) }
    /\ \A monthKey \in DOMAIN actualClosingValues :
           actualClosingValues[monthKey]
               = [raw |-> NearestToClose(monthKey).rawPipeline,
                  weighted |-> NearestToClose(monthKey).weightedPipeline]
    /\ \A monthKey \in DOMAIN aggregatedDataByMonth :
           ~SeenNearClose(monthKey) => monthKey \notin Range(allHistoricalMonths)

\* a month with two points equally near the close takes the first one, beside
\* a closed month without a point near its close
C21_TieAndNoClosingValue ==
    /\ lastCall = "loadData"
    /\ \E monthKey \in DOMAIN actualClosingValues :
           /\ Len(aggregatedDataByMonth[monthKey]) = 2
           /\ aggregatedDataByMonth[monthKey][1].daysBeforeClose = 2
           /\ aggregatedDataByMonth[monthKey][2].daysBeforeClose = -2
           /\ actualClosingValues[monthKey].raw = Num(500)
           /\ monthKey \in Range(allHistoricalMonths)
    /\ \E monthKey \in DOMAIN aggregatedDataByMonth :
           /\ ~SeenNearClose(monthKey)
           /\ DateLt(ClosingDateOf(monthKey), today)
           /\ monthKey \in Range(currentMonths)

-----------------------------------------------------------------------------
(* Properties of the backtest, under SpecCurves                             *)

\* the positions, in the historical months, of the months the backtest
\* evaluates: from the first month of April 2025 or later on, three
\* historical months at least preceding that one
TestPositions ==
    { k \in 1..Len(allHistoricalMonths) :
        \E first \in 4..k :
            /\ allHistoricalMonths[first] >= 202504
            /\ \A j \in 1..(first - 1) : allHistoricalMonths[j] < 202504 }

\* the trajectory of the month has a point within 3 days of the checkpoint
WithinThreeDays(monthKey, checkpoint) ==
    \E i \in DOMAIN aggregatedDataByMonth[monthKey] :
        Abs(aggregatedDataByMonth[monthKey][i].daysBeforeClose - checkpoint) <= 3

\* the first point of the trajectory among those nearest to the checkpoint
NearestTo(monthKey, checkpoint) ==
    Let(aggregatedDataByMonth[monthKey], LAMBDA trajectory :
        trajectory[CHOOSE i \in DOMAIN trajectory :
                       \A j \in DOMAIN trajectory :
                           /\ Abs(trajectory[i].daysBeforeClose - checkpoint)
                                  <= Abs(trajectory[j].daysBeforeClose - checkpoint)
                           /\ j < i => Abs(trajectory[i].daysBeforeClose - checkpoint)
                                           < Abs(trajectory[j].daysBeforeClose - checkpoint)])

\* the product of (1 + curve[d]) over the days d in 0..n-1
ProductOfFactors(curve, n) == ProductOver(curve, 0, n - 1)

\* the curve trained on the 3 historical months before position k
TrainedBefore(k) ==
    calculateGrowthRates(aggregatedDataByMonth,
                         << allHistoricalMonths[k - 3], allHistoricalMonths[k - 2],
                            allHistoricalMonths[k - 1] >>).smoothed

\* the result of the month at position k for one checkpoint
CheckpointResult(k, checkpoint) ==
    Let(NearestTo(allHistoricalMonths[k], checkpoint), LAMBDA p :
        [month |-> allHistoricalMonths[k],
         daysBefore |-> p.daysBeforeClose,
         prediction |-> RMul(p.weightedPipeline,
                             ProductOfFactors(TrainedBefore(k), p.daysBeforeClose)),
         actual |-> actualClosingValues[allHistoricalMonths[k]].weighted])

\* the checkpoints, in the order 60, 45, 30, 15, 7, 1, that have a point of
\* the month within 3 days
MatchedCheckpoints(k) ==
    SelectSeq(testPoints, LAMBDA c : WithinThreeDays(allHistoricalMonths[k], c))

C29_DistinctDaysBefore ==
    lastCall = "getBacktestResults"
    => /\ \A i, j \in DOMAIN result :
              (i # j /\ result[i].month = result[j].month)
                  => result[i].daysBefore # result[j].daysBefore
       /\ \A k \in TestPositions :
              Len(SelectSeq(result, LAMBDA r : r.month = allHistoricalMonths[k])) <= 6

-----------------------------------------------------------------------------
(* Properties of the peaks, under SpecCurves                                *)

\* the first instant of the calendar month before the month
FirstInstantOfPreviousMonth(monthKey) ==
    IF KeyMonth(monthKey) = 1 THEN At(KeyYear(monthKey) - 1, 12, 1, 0)
    ELSE At(KeyYear(monthKey), KeyMonth(monthKey) - 1, 1, 0)

\* the last instant of the month
LastInstantOf(monthKey) ==
    At(KeyYear(monthKey), KeyMonth(monthKey),
       DaysInMonth(KeyYear(monthKey), KeyMonth(monthKey)), MsPerDay - 1)

\* the distinct snapshot instants of the data in the window of the month
InstantsInWindow(monthKey) ==
    { allData[i].snapshotDate : i \in
        { j \in DOMAIN allData :
            /\ ~DateLt(allData[j].snapshotDate, FirstInstantOfPreviousMonth(monthKey))
            /\ ~DateLt(LastInstantOf(monthKey), allData[j].snapshotDate) } }

\* the raw sum at an instant of the observations closing in the month
RawSumAt(monthKey, instant) ==
    AmountOver({ i \in ObservationsOf(monthKey) : allData[i].snapshotDate = instant })

\* the records of the month among the peaks
PeaksOf(monthKey) == SelectSeq(peakData, LAMBDA r : r.month = monthKey)

\* C23: for each historical month the peak search goes over the distinct
\* snapshot instants between the first instant of the previous calendar
\* month and the last instant of the month, sums at each the raw amounts of
\* the observations closing in the month, and reports the instant with the
\* highest raw sum; the month has no record when no instant lies in the
\* window or when the highest raw sum is 0; every reported peakRawValue is
\* > 0 and >= the raw sum at every instant of the window.
C23_PeakIsHighestRawSumInWindow ==
    /\ \A monthKey \in Range(allHistoricalMonths) :
           /\ (\/ InstantsInWindow(monthKey) = {}
               \/ /\ \A t \in InstantsInWindow(monthKey) :
                         RLe(RawSumAt(monthKey, t), Num(0))
                  /\ \E t \in InstantsInWindow(monthKey) : RawSumAt(monthKey, t) = Num(0))
              => PeaksOf(monthKey) = << >>
           /\ (\E t \in InstantsInWindow(monthKey) : RGt(RawSumAt(monthKey, t), Num(0)))
              => /\ Len(PeaksOf(monthKey)) = 1
                 /\ PeaksOf(monthKey)[1].peakDate \in InstantsInWindow(monthKey)
                 /\ PeaksOf(monthKey)[1].peakRawValue
                        = RawSumAt(monthKey, PeaksOf(monthKey)[1].peakDate)
    /\ \A i \in DOMAIN peakData :
           /\ peakData[i].month \in Range(allHistoricalMonths)
           /\ RGt(peakData[i].peakRawValue, Num(0))
           /\ \A t \in InstantsInWindow(peakData[i].month) :
                  RGe(peakData[i].peakRawValue, RawSumAt(peakData[i].month, t))

\* a month whose highest raw sum in the window is not the one with the
\* highest weighted sum and is below a value seen after the window, a month
\* seen after its window only while other snapshots lie in the window, and
\* a month without any snapshot in its window
C23_PeakInsideEmptyAndZeroWindows ==
    /\ lastCall = "loadData"
    /\ allHistoricalMonths = << 202501, 202502, 202503 >>
    /\ Len(peakData) = 1
    /\ peakData[1].month = 202502
    /\ peakData[1].peakRawValue = Num(5000)
    /\ actualClosingValues[202502].raw = Num(6000)
    /\ InstantsInWindow(202503) # {}
    /\ InstantsInWindow(202501) = {}

\* C30: every record of analyzePeakAndDecline has well-defined decline
\* percentages: peakRawValue > 0 and peakWeightedValue > 0, so neither
\* declinePercentageRaw nor declinePercentageWeighted is the result of a
\* division by zero.
C30_DeclineDivisorsArePositive ==
    \A i \in DOMAIN peakData :
        /\ RGt(peakData[i].peakRawValue, Num(0))
        /\ RGt(peakData[i].peakWeightedValue, Num(0))
        /\ IsFinite(peakData[i].declinePercentageRaw)
        /\ IsFinite(peakData[i].declinePercentageWeighted)

-----------------------------------------------------------------------------
(* Properties of the sign of the projections, under SpecCurves              *)

\* every rate of the curve lies strictly between -0.5 and 0.5
Bounded(curve) ==
    \A i \in DOMAIN curve :
        RGt(curve[i].rate, Rat(-1, 2)) /\ RLt(curve[i].rate, Rat(1, 2))

\* the point of the month the backtest result was made from
StartPointOf(r) ==
    Let(aggregatedDataByMonth[r.month], LAMBDA trajectory :
        trajectory[CHOOSE i \in DOMAIN trajectory :
                       trajectory[i].daysBeforeClose = r.daysBefore])

\* the latest point of a non-empty trajectory
LatestPointOf(trajectory) ==
    trajectory[CHOOSE i \in DOMAIN trajectory :
                   \A j \in DOMAIN trajectory :
                       /\ ~DateLt(trajectory[i].snapshotDate, trajectory[j].snapshotDate)
                       /\ j < i => DateLt(trajectory[j].snapshotDate,
                                          trajectory[i].snapshotDate)]

\* the baseForecast of a trajectory: its latest value compounded through the
\* rates of the days below its daysToClose
BaseForecastOf(trajectory) ==
    RMul(LatestPointOf(trajectory).weightedAmount,
         ProductOfFactors(forecastGrowthRates,
                          Min2(LatestPointOf(trajectory).daysBeforeClose,
                               Len(forecastGrowthRates))))

\* C24: every rate of the median curve and of the smoothed curve lies
\* strictly between -0.5 and 0.5, so every forecast, every backtest
\* prediction and every goal-seek baseForecast computed from a strictly
\* positive starting value is strictly positive, and the goal-seek refusal
\* on baseForecast <= 0 is not taken once startingValue > 0 has passed.
C24_BoundedRatesPositiveProjections ==
    /\ Bounded(medianGrowthRates)
    /\ Bounded(forecastGrowthRates)
    /\ lastCall = "calculateGrowthRates"
       => Bounded(result.median) /\ Bounded(result.smoothed)
    /\ lastCall = "getForecast"
       => \A i \in DOMAIN result :
              (result[i].forecast # Null /\ RGt(result[i].currentWeightedValue, Num(0)))
                  => /\ RGt(result[i].forecast, Num(0))
                     /\ \A j \in DOMAIN result[i].forecastTrajectory :
                            RGt(result[i].forecastTrajectory[j].weightedAmount, Num(0))
    /\ lastCall = "getBacktestResults"
       => \A i \in DOMAIN result :
              RGt(StartPointOf(result[i]).weightedPipeline, Num(0))
                  => RGt(result[i].prediction, Num(0))
    /\ (/\ lastCall = "generateGoalSeekTrajectory"
        /\ Len(result.originalTrajectory) > 0
        /\ RGt(LatestPointOf(result.originalTrajectory).weightedAmount, Num(0))
        /\ LatestPointOf(result.originalTrajectory).daysBeforeClose > 0)
       => /\ RGt(BaseForecastOf(result.originalTrajectory), Num(0))
          /\ Len(result.trajectory) > Len(result.originalTrajectory)

\* a forecast below the current value, through a curve that loses more than a
\* quarter on its last day
C24_ShrinkingForecast ==
    /\ lastCall = "getForecast"
    /\ Len(result) = 1
    /\ result[1].currentWeightedValue = Num(1000)
    /\ result[1].daysToClose = 2
    /\ result[1].forecast = Rat(1760, 3)
    /\ RateAt(forecastGrowthRates, 0) = Rat(-4, 15)
    /\ RateAt(medianGrowthRates, 0) = Rat(-2, 5)

\* C27: for a trajectory accepted by generateGoalSeekTrajectory (latest
\* weightedAmount > 0, daysToClose > 0), a curve produced by
\* calculateGrowthRates and a goal > 0, every projected point has
\* weightedAmount > 0.
C27_GoalSeekProjectionsPositive ==
    (/\ lastCall = "generateGoalSeekTrajectory"
     /\ Len(result.originalTrajectory) > 0
     /\ RGt(LatestPointOf(result.originalTrajectory).weightedAmount, Num(0))
     /\ LatestPointOf(result.originalTrajectory).daysBeforeClose > 0
     /\ RGt(result.goalValue, Num(0)))
    => \A i \in (Len(result.originalTrajectory) + 1)..Len(result.trajectory) :
           RGt(result.trajectory[i].weightedAmount, Num(0))

-----------------------------------------------------------------------------
(* Properties of the days before close, under SpecCurves                    *)

\* C25: after loadData on a fresh analyzer every point of every aggregated
\* trajectory has daysBeforeClose in -5..89, the value recomputed by the
\* aggregator being the value the parser checked on a row of that snapshot
\* and month; so getForecast never refuses for daysToClose > 89 and no
\* current month with a non-empty trajectory has forecast = null.
C25_DaysBeforeCloseInRange ==
    /\ \A monthKey \in DOMAIN aggregatedDataByMonth :
           \A i \in DOMAIN aggregatedDataByMonth[monthKey] :
               /\ aggregatedDataByMonth[monthKey][i].daysBeforeClose \in -5..89
               /\ \E j \in ObservationsOf(monthKey) :
                      /\ allData[j].snapshotDate
                             = aggregatedDataByMonth[monthKey][i].snapshotDate
                      /\ allData[j].daysBeforeClose
                             = aggregatedDataByMonth[monthKey][i].daysBeforeClose
    /\ lastCall = "getForecast"
       => \A i \in DOMAIN result :
              Len(result[i].trajectory) > 0
                  => result[i].forecast # Null /\ result[i].daysToClose <= 89

\* rows 90 days before the close and 6 days after it were dropped, a month
\* seen 5 days after its close is closed, and the month seen 89 days before
\* its close has a forecast
C25_ForecastFromTheEdge ==
    /\ lastCall = "getForecast"
    /\ loads = 1
    /\ Len(rawData) = Len(allData) + 2
    /\ aggregatedDataByMonth[202504][1].daysBeforeClose = -5
    /\ Len(result) = 1
    /\ result[1].month = 202505
    /\ result[1].daysToClose = 89
    /\ Len(result[1].forecastTrajectory) = 89
    /\ result[1].forecast = RMul(Num(500), Rat(64821, 60000))

-----------------------------------------------------------------------------
(* Properties of the appendix, under SpecCurves                             *)

\* the forecast calculations of the appendix for the month
CalculationsOf(appendix, monthKey) ==
    SelectSeq(appendix.forecastCalculations, LAMBDA f : f.month = monthKey)

\* the entry of the breakdown for the day d
EntriesOf(calculation, d) ==
    SelectSeq(calculation.dailyBreakdown, LAMBDA e : e.daysBefore = d)

\* the point of the forecast trajectory for the day d
PointsOf(forecast, d) ==
    SelectSeq(forecast.forecastTrajectory, LAMBDA q : q.daysBeforeClose = d)

\* C26: for every month with a non-null forecast and every day d in
\* 0..daysToClose-1 the dailyBreakdown entry of getAppendixData for d has the
\* end value and the calendar date of the forecastTrajectory point of
\* getForecast for d (the latest snapshot date + (daysToClose - d) days), and
\* the entry for d = 0 has endValue equal to the forecast of the month.
C26_AppendixAgreesWithForecast ==
    lastCall = "getAppendixData"
    => \A i \in DOMAIN getForecast(Self) :
           getForecast(Self)[i].forecast # Null
               => \A d \in 0..(getForecast(Self)[i].daysToClose - 1) :
                      /\ Len(CalculationsOf(result, getForecast(Self)[i].month)) = 1
                      /\ Len(EntriesOf(CalculationsOf(result, getForecast(Self)[i].month)[1],
                                       d)) = 1
                      /\ Len(PointsOf(getForecast(Self)[i], d)) = 1
                      /\ EntriesOf(CalculationsOf(result, getForecast(Self)[i].month)[1],
                                   d)[1].endValue
                             = PointsOf(getForecast(Self)[i], d)[1].weightedAmount
                      /\ EntriesOf(CalculationsOf(result, getForecast(Self)[i].month)[1],
                                   d)[1].date
                             = PointsOf(getForecast(Self)[i], d)[1].snapshotDate.day
                      /\ d = 0
                         => EntriesOf(CalculationsOf(result,
                                                     getForecast(Self)[i].month)[1],
                                      d)[1].endValue
                                = getForecast(Self)[i].forecast

-----------------------------------------------------------------------------
(* Properties of the two growth models, under SpecCurves                    *)

\* what getForecast computes from a point through a curve: the value of the
\* last step, or the value of the point when no day is left
ForecastFrom(point, curve) ==
    Let(ForecastSteps(point.weightedPipeline, point.snapshotDate,
                      point.daysBeforeClose - 1, curve),
        LAMBDA steps : IF Len(steps) = 0 THEN point.weightedPipeline
                       ELSE steps[Len(steps)].weightedAmount)

\* the position of the month among the historical months
PositionOf(monthKey) ==
    CHOOSE k \in 1..Len(allHistoricalMonths) : allHistoricalMonths[k] = monthKey

\* C28: on the same aggregated data and the same list of training months the
\* calculateGrowthRates of BacktestAnalyzer and the one of
\* NewPipelineTrajectoryAnalyzer return the same smoothed curve, so a
\* backtest prediction from a point is what getForecast computes from that
\* point with a curve trained on the same months.
C28_GrowthModelsAgree ==
    /\ lastCall = "calculateGrowthRates"
       => BacktestCalculateGrowthRates(aggregatedDataByMonth, result.months)
              = result.smoothed
    /\ lastCall = "getBacktestResults"
       => \A i \in DOMAIN result :
              result[i].prediction
                  = ForecastFrom(StartPointOf(result[i]),
                                 TrainedBefore(PositionOf(result[i].month)))

\* a curve trained on three months that moves on its last days and is
\* smoothed over them
C28_CurveOfThreeMonths ==
    /\ lastCall = "calculateGrowthRates"
    /\ Len(result.months) = 3
    /\ Len(result.dailyRates) >= 6
    /\ RateAt(result.smoothed, 0) # Num(0)
    /\ RateAt(result.smoothed, 0) # RateAt(result.median, 0)
    /\ RateAt(result.smoothed, 0) # RateAt(result.smoothed, 1)
    /\ BacktestCalculateGrowthRates(aggregatedDataByMonth, result.months)[1].rate
           = RateAt(result.smoothed, 0)

=============================================================================
